---- MODULE Spec2Model ----
(***************************************************************************)
(* BRITIMP consolidator: classification, authenticity gate, per-file       *)
(* orchestration, consolidated writer and archiver.                        *)
(*                                                                         *)
(* The repository holds three generations of the same program:             *)
(*   "v3"  src/consolidado_v3.py                                           *)
(*   "v4"  src/consolidado_v4.py                                           *)
(*   "b4"  src/britimp_consolidado_v4.py                                   *)
(* Every operator that models code takes the generation as its first       *)
(* argument v and follows that file's text.                                *)
(*                                                                         *)
(* Text is modelled by TLA+ strings.  The calendar day is fixed (every run  *)
(* of a behaviour happens on the same day), so today_folder() is one       *)
(* folder.                                                                 *)
(***************************************************************************)
EXTENDS Naturals, Integers, Sequences, FiniteSets, TLC

(***************************************************************************)
(* Bounds of the model                                                     *)
(***************************************************************************)
MaxFiles == 2
MaxRuns == 2
MaxClock == 1
MaxTokens == 4

(***************************************************************************)
(* String helpers (Python str / re primitives)                             *)
(***************************************************************************)
Max(a, b) == IF a >= b THEN a ELSE b
Min(a, b) == IF a <= b THEN a ELSE b

\* s[i:j+1] as Python slices it, empty when out of range
Slice(s, i, j) == IF i > j \/ i > Len(s) THEN "" ELSE SubSeq(s, Max(i, 1), Min(j, Len(s)))

CharAt(s, i) == IF i >= 1 /\ i <= Len(s) THEN SubSeq(s, i, i) ELSE ""

\* lit occurs in s starting at position i
MatchAt(s, i, lit) == i >= 1 /\ i + Len(lit) - 1 <= Len(s) /\ SubSeq(s, i, i + Len(lit) - 1) = lit

\* Python's   pat in s
Contains(s, pat) == \E i \in 1..(Len(s) + 1) : MatchAt(s, i, pat)

StartsWith(s, pat) == MatchAt(s, 1, pat)

LowerLetters == <<"a","b","c","d","e","f","g","h","i","j","k","l","m","n","o","p","q","r","s","t","u","v","w","x","y","z">>
UpperLetters == <<"A","B","C","D","E","F","G","H","I","J","K","L","M","N","O","P","Q","R","S","T","U","V","W","X","Y","Z">>
Digits == {"0","1","2","3","4","5","6","7","8","9"}
UpperSet == {UpperLetters[i] : i \in 1..26}
LowerSet == {LowerLetters[i] : i \in 1..26}

\* the accented letters of Spanish text, and each without its combining mark
LowerAccented == <<"á","é","í","ó","ú","ñ","ü">>
UpperAccented == <<"Á","É","Í","Ó","Ú","Ñ","Ü">>
LowerPlain == <<"a","e","i","o","u","n","u">>
UpperPlain == <<"A","E","I","O","U","N","U">>
UpperAccentedSet == {UpperAccented[i] : i \in 1..7}
LowerAccentedSet == {LowerAccented[i] : i \in 1..7}

UpperChar(c) ==
    IF c \in LowerSet THEN UpperLetters[CHOOSE i \in 1..26 : LowerLetters[i] = c]
    ELSE IF c \in LowerAccentedSet THEN UpperAccented[CHOOSE i \in 1..7 : LowerAccented[i] = c]
    ELSE c
LowerChar(c) ==
    IF c \in UpperSet THEN LowerLetters[CHOOSE i \in 1..26 : UpperLetters[i] = c]
    ELSE IF c \in UpperAccentedSet THEN LowerAccented[CHOOSE i \in 1..7 : UpperAccented[i] = c]
    ELSE c
PlainChar(c) ==
    IF c \in UpperAccentedSet THEN UpperPlain[CHOOSE i \in 1..7 : UpperAccented[i] = c]
    ELSE IF c \in LowerAccentedSet THEN LowerPlain[CHOOSE i \in 1..7 : LowerAccented[i] = c]
    ELSE c

\* str.upper() / str.lower(), halving the text
RECURSIVE UpperRange(_, _, _)
UpperRange(s, i, j) ==
    IF i > j THEN "" ELSE IF i = j THEN UpperChar(SubSeq(s, i, i))
    ELSE LET m == (i + j) \div 2 IN UpperRange(s, i, m) \o UpperRange(s, m + 1, j)
upper(s) == UpperRange(s, 1, Len(s))

RECURSIVE LowerRange(_, _, _)
LowerRange(s, i, j) ==
    IF i > j THEN "" ELSE IF i = j THEN LowerChar(SubSeq(s, i, i))
    ELSE LET m == (i + j) \div 2 IN LowerRange(s, i, m) \o LowerRange(s, m + 1, j)
lower(s) == LowerRange(s, 1, Len(s))

\* remove_accents: NFD, then drop the combining marks
RECURSIVE PlainRange(_, _, _)
PlainRange(s, i, j) ==
    IF i > j THEN "" ELSE IF i = j THEN PlainChar(SubSeq(s, i, i))
    ELSE LET m == (i + j) \div 2 IN PlainRange(s, i, m) \o PlainRange(s, m + 1, j)
remove_accents(s) == PlainRange(s, 1, Len(s))

IsSpace(c) == c \in {" ", "\t", "\n", "\r"}
\* \w of the re module on str patterns
IsWord(c) == c \in UpperSet \cup LowerSet \cup UpperAccentedSet \cup LowerAccentedSet \cup Digits \cup {"_"}
\* \b between positions i-1 and i
WordB(s, i) == IsWord(CharAt(s, i - 1)) # IsWord(CharAt(s, i))

RECURSIVE SkipSpaces(_, _)
SkipSpaces(s, i) == IF i <= Len(s) /\ IsSpace(CharAt(s, i)) THEN SkipSpaces(s, i + 1) ELSE i

\* str.strip()
RECURSIVE rstrip(_)
rstrip(s) == IF s # "" /\ IsSpace(CharAt(s, Len(s))) THEN rstrip(Slice(s, 1, Len(s) - 1)) ELSE s
strip(s) == rstrip(Slice(s, SkipSpaces(s, 1), Len(s)))

\* parts[1] \s+ parts[2] \s+ ... matched at position i: the position after the
\* match, 0 when there is none
RECURSIVE WsSeqEnd(_, _, _)
WsSeqEnd(s, i, parts) ==
    IF ~MatchAt(s, i, Head(parts)) THEN 0
    ELSE LET e == i + Len(Head(parts))
         IN  IF Len(parts) = 1 THEN e
             ELSE IF ~IsSpace(CharAt(s, e)) THEN 0
             ELSE WsSeqEnd(s, SkipSpaces(s, e), Tail(parts))

\* re.search(r"A\s+B", s)
SearchWs(s, parts) == \E i \in 1..Len(s) : WsSeqEnd(s, i, parts) # 0

\* re.search(r"\bA\s+B\b", s)
SearchWordWs(s, parts) ==
    \E i \in 1..Len(s) : LET e == WsSeqEnd(s, i, parts) IN e # 0 /\ WordB(s, i) /\ WordB(s, e)

\* re.search(r"\bA", s)
SearchWordStart(s, lit) == \E i \in 1..Len(s) : MatchAt(s, i, lit) /\ WordB(s, i)

\* re.search(r"A\b", s)
SearchWordEnd(s, parts) ==
    \E i \in 1..Len(s) : LET e == WsSeqEnd(s, i, parts) IN e # 0 /\ WordB(s, e)

(***************************************************************************)
(* Helpers of the program                                                  *)
(***************************************************************************)
\* the class [A-ZÁÉÍÓÚÑ]
CapitalClass == UpperSet \cup {"Á","É","Í","Ó","Ú","Ñ"}

\* A capital standing alone as a word
Standalone(s, j) == CharAt(s, j) \in CapitalClass /\ ~IsWord(CharAt(s, j - 1)) /\ ~IsWord(CharAt(s, j + 1))

\* The blank at k lies between two capitals standing alone with only white
\* space between them: inside a match of  \b[A-Z](?:\s+[A-Z])+\b
InLetterGap(s, k) ==
    LET L == {j \in 1..(k - 1) : ~IsSpace(CharAt(s, j))}
        R == {j \in (k + 1)..Len(s) : ~IsSpace(CharAt(s, j))}
    IN  /\ L # {} /\ R # {}
        /\ Standalone(s, CHOOSE j \in L : \A x \in L : x <= j)
        /\ Standalone(s, CHOOSE j \in R : \A x \in R : j <= x)

RECURSIVE UnirRange(_, _, _)
UnirRange(s, i, j) ==
    IF i > j THEN ""
    ELSE IF i = j THEN (IF SubSeq(s, i, i) = " " /\ InLetterGap(s, i) THEN "" ELSE SubSeq(s, i, i))
    ELSE LET m == (i + j) \div 2 IN UnirRange(s, i, m) \o UnirRange(s, m + 1, j)

\* "B I L L E T E S" -> "BILLETES": re.sub drops the blanks of every match
unir_letras_separadas(texto) == UnirRange(texto, 1, Len(texto))

\* name_matches: the target holds one option of every group
name_matches(fname, required_groups) ==
    LET target == upper(remove_accents(fname))
    IN  \A g \in 1..Len(required_groups) :
            \E o \in 1..Len(required_groups[g]) : Contains(target, upper(remove_accents(required_groups[g][o])))

AGENCIES(v) == IF v = "b4" THEN <<"ASU", "CDE", "ENC", "OVD">> ELSE <<"ASU", "CDE", "ENC", "OVD", "CON">>
AgencySet(v) == {AGENCIES(v)[i] : i \in 1..Len(AGENCIES(v))}

\* AGENCIA_PATTERNS, each pattern \b p1 \s+ p2 ... \b given by its literal parts
AGENCIA_PATTERNS(cod) ==
    CASE cod = "ASU" -> {<<"CASA", "MATRIZ">>, <<"ASUNCION">>, <<"ASUNCIÓN">>, <<"ASU">>}
      [] cod = "CDE" -> {<<"CIUDAD", "DEL", "ESTE">>, <<"CDE">>}
      [] cod = "ENC" -> {<<"ENCARNACION">>, <<"ENCARNACIÓN">>, <<"ENC">>}
      [] cod = "OVD" -> {<<"CNEL", "OVIEDO">>, <<"CNEL.", "OVIEDO">>, <<"CORONEL", "OVIEDO">>, <<"OVIEDO">>, <<"OVD">>}
      [] cod = "CON" -> {<<"CONCEPCION">>, <<"CONCEPCIÓN">>, <<"CON">>}

\* v4's norm_agencia patterns: "\bASU|ASUNCION|CASA\s+MATRIZ\b" is the alternation
\* (\bASU) | ASUNCION | (CASA\s+MATRIZ\b)
NormAgenciaV4Hit(cod, u) ==
    CASE cod = "ASU" -> SearchWordStart(u, "ASU") \/ Contains(u, "ASUNCION") \/ Contains(u, "ASUNCIÓN") \/ SearchWordEnd(u, <<"CASA", "MATRIZ">>)
      [] cod = "CDE" -> SearchWordStart(u, "CDE") \/ SearchWordEnd(u, <<"CIUDAD", "DEL", "ESTE">>)
      [] cod = "ENC" -> SearchWordStart(u, "ENC") \/ Contains(u, "ENCARNACION") \/ SearchWordEnd(u, <<"ENCARNACIÓN">>)
      [] cod = "OVD" -> SearchWordStart(u, "OVD") \/ Contains(u, "OVIEDO")
      [] cod = "CON" -> SearchWordStart(u, "CON") \/ Contains(u, "CONCEPCION") \/ SearchWordEnd(u, <<"CONCEPCIÓN">>)

\* normalize_agencia_to_cod (v3, b4) / norm_agencia (v4): first code whose pattern hits
normalize_agencia_to_cod(v, value) ==
    LET raw  == strip(value)
        u    == remove_accents(upper(IF v = "v4" THEN value ELSE raw))
        Hit(cod) == IF v = "v4" THEN NormAgenciaV4Hit(cod, u)
                    ELSE \E parts \in AGENCIA_PATTERNS(cod) : SearchWordWs(u, parts)
        hits == {i \in 1..Len(AGENCIES(v)) : Hit(AGENCIES(v)[i])}
    IN  IF v # "v4" /\ raw = "" THEN ""
        ELSE IF hits = {} THEN ""
        ELSE AGENCIES(v)[CHOOSE i \in hits : \A j \in hits : i <= j]

\* infer_agencia_from_filename / infer_agencia_by_name
infer_agencia_from_filename(fname) ==
    LET up == strip(upper(fname))
        P(n) == StartsWith(up, n \o "_0") \/ StartsWith(up, n \o "-0") \/ StartsWith(up, n \o " ")
    IN  IF P("01") THEN "ASU" ELSE IF P("02") THEN "CDE" ELSE IF P("03") THEN "ENC" ELSE IF P("04") THEN "OVD" ELSE ""

\* "$" of the re module: the end of the text, or just before a final newline
AtDollar(s, q) == q > Len(s) \/ (q = Len(s) /\ CharAt(s, q) = "\n")

\* group 1 of  SUC:\s*(.+?)\s*(?:[\)\]\-]|$)  (v3; b4 has no "-"), "" when no match
SucGroupLazy(text, delims) ==
    LET u == upper(text)
        \* the shortest capture of n >= 1 characters starting at c
        Lens(c) == {n \in 1..(Len(text) + 1 - c) :
                       /\ \A k \in c..(c + n - 1) : CharAt(text, k) # "\n"
                       /\ LET q == SkipSpaces(text, c + n)
                          IN  AtDollar(text, q) \/ CharAt(text, q) \in delims}
        Starts == {i \in 1..Len(text) : MatchAt(u, i, "SUC:") /\ Lens(SkipSpaces(text, i + 4)) # {}}
    IN  IF Starts = {} THEN ""
        ELSE LET i == CHOOSE x \in Starts : \A y \in Starts : x <= y
                 c == SkipSpaces(text, i + 4)
                 n == CHOOSE x \in Lens(c) : \A y \in Lens(c) : x <= y
             IN  SubSeq(text, c, c + n - 1)

\* group 1 of  SUC:\s*([A-ZÁÉÍÓÚÑ \-\.]+)  with re.I (v4), "" when no match
RECURSIVE ClassRunEnd(_, _)
ClassRunEnd(s, i) ==
    IF UpperChar(CharAt(s, i)) \in CapitalClass \cup {" ", "-", "."} THEN ClassRunEnd(s, i + 1) ELSE i
SucGroupClass(text) ==
    LET u == upper(text)
        \* \s* gives back blanks when the class would otherwise match nothing
        Cap(i) == LET c == SkipSpaces(text, i + 4)
                      b == IF ClassRunEnd(text, c) > c THEN c
                           ELSE IF c > i + 4 /\ CharAt(text, c - 1) = " " THEN c - 1 ELSE 0
                  IN  IF b = 0 THEN "" ELSE SubSeq(text, b, ClassRunEnd(text, b) - 1)
        Starts == {i \in 1..Len(text) : MatchAt(u, i, "SUC:") /\ Cap(i) # ""}
    IN  IF Starts = {} THEN "" ELSE Cap(CHOOSE x \in Starts : \A y \in Starts : x <= y)

\* parse_agencia_from_text: v3 and b4 return the code or else the raw branch text,
\* v4 returns the raw branch text
parse_agencia_from_text(v, text) ==
    IF v = "v4" THEN strip(SucGroupClass(text))
    ELSE LET g == SucGroupLazy(text, IF v = "v3" THEN {")", "]", "-"} ELSE {")", "]"})
             cod == normalize_agencia_to_cod(v, g)
         IN  IF g = "" THEN "" ELSE IF cod # "" THEN cod ELSE strip(g)

(***************************************************************************)
(* Authenticity gate, no-movements detector, classifier                    *)
(***************************************************************************)
NEGATIVE_BANKS == {"CONTINENTAL", "BBVA", "GNB", "REGIONAL", "BASA", "VISION", "ATLAS", "SUDAMERIS", "FAMILIAR", "ITAPUA", "AMAMBAY"}

OUTPUT_FILES == {"EC_EFECT_BCO", "EC_EFECT_ATM", "INV_BILLETES_BCO", "INV_BILLETES_ATM", "EC_BULTO_ATM"}

\* dispatch_tipo's "None"
NoTipo == "NONE"

\* re.search(r"CLIENTE[^A-Z0-9]{0,10}ITAU", txt)
SearchClienteItau(txt) ==
    \E i \in 1..Len(txt) : \E n \in 0..10 :
        /\ MatchAt(txt, i, "CLIENTE")
        /\ \A k \in (i + 7)..(i + 6 + n) : CharAt(txt, k) # "" /\ CharAt(txt, k) \notin UpperSet \cup Digits
        /\ MatchAt(txt, i + 7 + n, "ITAU")

\* dispatch_tipo(fname) of v3 and v4, dispatch_tipo(fname, text_content) of b4
dispatch_tipo(v, fname, text_content) ==
    LET up == upper(remove_accents(fname))
        up_text == upper(text_content)
        In(tok) == Contains(up, tok)
    IN  CASE v = "v3" ->
                 IF In("INV") /\ In("ATM") THEN "INV_BILLETES_ATM"
                 ELSE IF In("INV") /\ (In("BANCO") \/ In("BCO") \/ In("DOLAR") \/ In("DÓLAR") \/ In("USD")) THEN "INV_BILLETES_BCO"
                 ELSE IF name_matches(up, <<(<<"EC", "CTA", "ESTADO">>), <<"EFECT", "EFECTIVO">>, <<"BCO", "BANCO">> >>) THEN "EC_EFECT_BCO"
                 ELSE IF name_matches(up, <<(<<"EC", "CTA", "ESTADO">>), <<"EFECT", "EFECTIVO">>, <<"ATM">> >>) THEN "EC_EFECT_ATM"
                 ELSE IF name_matches(up, <<(<<"EC", "CTA", "ESTADO">>), <<"BULTO", "BULTOS">>, <<"ATM">> >>) THEN "EC_BULTO_ATM"
                 ELSE IF name_matches(up, <<(<<"INV">>), <<"BILLETE", "BILLETES">>, <<"ATM">> >>) THEN "INV_BILLETES_ATM"
                 ELSE IF name_matches(up, <<(<<"INV">>), <<"BILLETE", "BILLETES">>, <<"BCO", "BANCO", "DOLAR", "DÓLAR">> >>) THEN "INV_BILLETES_BCO"
                 ELSE IF name_matches(up, <<(<<"INV">>)>>) THEN "INV_BILLETES_UNKNOWN"
                 ELSE NoTipo
          [] v = "v4" ->
                 IF In("INV") /\ In("ATM") THEN "INV_BILLETES_ATM"
                 ELSE IF In("INV") /\ (In("BANCO") \/ In("BCO") \/ In("DOLAR") \/ In("DÓLAR") \/ In("USD")) THEN "INV_BILLETES_BCO"
                 ELSE IF In("EC") /\ In("EFECT") /\ In("ATM") THEN "EC_EFECT_ATM"
                 ELSE IF In("EC") /\ In("EFECT") /\ (In("BCO") \/ In("BANCO")) THEN "EC_EFECT_BCO"
                 ELSE IF In("EC") /\ In("BULTO") /\ In("ATM") THEN "EC_BULTO_ATM"
                 ELSE IF In("INV") THEN "INV_BILLETES_UNKNOWN"
                 ELSE NoTipo
          [] v = "b4" ->
                 IF name_matches(up, <<(<<"EC">>), <<"BULTO">>, <<"ATM">> >>) THEN "EC_BULTO_ATM"
                 ELSE IF name_matches(up, <<(<<"EC">>), <<"EFECT">>, <<"ATM">> >>) THEN "EC_EFECT_ATM"
                 ELSE IF name_matches(up, <<(<<"EC">>), <<"EFECT">>, <<"BCO", "BANCO">> >>) THEN "EC_EFECT_BCO"
                 ELSE IF name_matches(up, <<(<<"INV">>), <<"BILLETE">>, <<"ATM">> >>) THEN "INV_BILLETES_ATM"
                 ELSE IF name_matches(up, <<(<<"INV">>), <<"BILLETE">>, <<"BCO", "BANCO">> >>) THEN "INV_BILLETES_BCO"
                 ELSE IF In("INV") THEN
                      IF Contains(up_text, "INVENTARIO DE BILLETES DE ATM") THEN "INV_BILLETES_ATM"
                      ELSE IF Contains(up_text, "INVENTARIO DE BILLETES DE BANCO") THEN "INV_BILLETES_BCO"
                      ELSE "INV_BILLETES_UNKNOWN"
                 ELSE NoTipo

\* detect_cliente_itau(path) of v3, detect_itau(path) of v4,
\* detect_cliente_itau(path, tipo_documento) of b4; preview = file_text_preview(path)
detect_cliente_itau(v, fname, preview, tipo_documento) ==
    LET txt == upper(unir_letras_separadas(preview))
        up  == upper(remove_accents(fname))
        pipeline_groups == <<(<<"INV", "EC", "CTA", "ESTADO", "PLANILLA">>), <<"ATM", "BCO", "BANCO", "BULTO", "EFECT">>, <<"BILLETE", "BILLETES", "EFECTIVO">> >>
    IN  CASE v = "v3" ->
                 IF \E b \in NEGATIVE_BANKS : Contains(txt, b) THEN FALSE
                 ELSE IF SearchClienteItau(txt) THEN TRUE
                 ELSE IF Contains(txt, "BANCO ITAU") THEN TRUE
                 ELSE IF Contains(txt, "CLIENTE: BANCO ITAU") THEN TRUE
                 ELSE name_matches(up, pipeline_groups) /\ ~(\E b \in NEGATIVE_BANKS : Contains(up, b))
          [] v = "v4" ->
                 IF \E b \in NEGATIVE_BANKS : Contains(txt, b) THEN FALSE
                 ELSE IF SearchClienteItau(txt) THEN TRUE
                 ELSE IF Contains(txt, "BANCO ITAU") \/ Contains(txt, "CLIENTE: BANCO ITAU") THEN TRUE
                 ELSE \A g \in 1..3 : \E o \in 1..Len(pipeline_groups[g]) : Contains(up, pipeline_groups[g][o])
          [] v = "b4" ->
                 IF \E b \in NEGATIVE_BANKS : Contains(txt, b) \/ Contains(up, b) THEN FALSE
                 ELSE IF Contains(txt, "ITAU") \/ Contains(up, "ITAU") THEN TRUE
                 ELSE IF /\ tipo_documento # NoTipo
                         /\ Contains(tipo_documento, "EC_")
                         /\ name_matches(fname, <<(<<"EC">>), <<"ATM", "BCO", "BANCO", "BULTO">>, <<"EFECTIVO", "BILLETE">> >>)
                      THEN FALSE
                 ELSE IF /\ tipo_documento # NoTipo
                         /\ Contains(tipo_documento, "INV_")
                         /\ name_matches(fname, <<(<<"INV">>), <<"BILLETE">>, <<"ATM", "BCO", "BANCO">> >>)
                      THEN TRUE
                 ELSE FALSE

\* detect_sin_movimientos(path) of v3 and b4; the inline search of v4's process_file
detect_sin_movimientos(v, preview) ==
    CASE v = "v3" -> SearchWs(upper(unir_letras_separadas(preview)), <<"SIN", "MOVIMIENTOS">>)
      [] v = "v4" -> SearchWs(upper(preview), <<"SIN", "MOVIMIENTOS">>)
      [] v = "b4" -> Contains(upper(unir_letras_separadas(preview)), "SIN MOVIMIENTOS")

(***************************************************************************)
(* Per-file orchestration                                                  *)
(*                                                                         *)
(* A source document d is a record                                         *)
(*   folder  the agency folder of PENDIENTES it lies in (the hint)         *)
(*   stem, ext   Path.stem and Path.suffix; Path.name is stem \o ext       *)
(*   text    what file_text_preview returns for it                         *)
(*   rows    how many records its extractor collects when it is run        *)
(*   fail    what goes wrong with it: "" nothing; "corrupt": the workbook  *)
(*           or PDF library cannot open it; "unreadable": not even its     *)
(*           bytes can be read; "parse": an exception is raised in the     *)
(*           sheet loop of the extractor after rows records were           *)
(*           collected; "badsheet": the workbook opens and a sheet cannot  *)
(*           be read; "move": shutil.move of it raises                     *)
(***************************************************************************)
PathName(d) == d.stem \o d.ext

Or(a, b) == IF a # "" THEN a ELSE b

NoParser == "Ninguno"

\* f.read(4096) of v3 and read_text(...)[:4000] of v4
PreviewBytes == 4096
PreviewChars == 4000

\* the bytes of the file (a PDF starts with its magic)
RawBytes(d) == IF lower(d.ext) = ".pdf" THEN "%PDF-" \o d.text ELSE d.text

\* str(data) of a bytes object
BytesRepr(s) == "b'" \o s \o "'"

\* file_text_preview raises: v3 and v4 open the workbook a second time outside
\* any try, b4 gets None from read_excel_any_version; none has a try around the
\* read_excel of a sheet
PreviewRaises(v, d) ==
    /\ lower(d.ext) \in {".xlsx", ".xls"}
    /\ \/ d.fail = "badsheet"
       \/ d.fail \in {"corrupt", "unreadable"} /\ v \in {"v3", "v4"}

\* file_text_preview(path) when it returns; pdflib: PdfReader could be imported
file_text_preview(v, d, pdflib) ==
    IF lower(d.ext) \in {".xlsx", ".xls"} THEN (IF d.fail \in {"corrupt", "unreadable"} THEN "" ELSE d.text)
    ELSE IF lower(d.ext) = ".pdf" /\ pdflib THEN (IF d.fail \in {"corrupt", "unreadable"} THEN "" ELSE d.text)
    ELSE CASE v = "v3" -> IF d.fail = "unreadable" THEN ""
                          ELSE BytesRepr(SubSeq(RawBytes(d), 1, Min(Len(RawBytes(d)), PreviewBytes)))
           [] v = "v4" -> IF d.fail = "unreadable" THEN ""
                          ELSE SubSeq(RawBytes(d), 1, Min(Len(RawBytes(d)), PreviewChars))
           [] v = "b4" -> ""

\* the records process_file is left with after the try-block: what the
\* extractor returned, or nothing when it raised.  Only parse_ec_bultos_atm_xlsx
\* catches an exception of its sheet loop itself and returns what it has
ExtractorRecords(v, parser, d) ==
    IF parser = NoParser THEN 0
    ELSE CASE d.fail \in {"corrupt", "unreadable"} -> 0
           [] d.fail \in {"parse", "badsheet"} -> IF parser = "parse_ec_bultos_atm_xlsx" THEN d.rows ELSE 0
           [] OTHER -> d.rows

\* the try-block of process_file: which extractor the type and extension select
SelectParser(v, tipo, ext) ==
    LET xl == ext \in {".xlsx", ".xls"}
    IN  CASE v = "v3" ->
                 IF tipo = "EC_BULTO_ATM" /\ xl THEN "parse_ec_bultos_atm_xlsx"
                 ELSE IF tipo = "INV_BILLETES_ATM" THEN
                      (IF xl THEN "parse_inv_billetes_xlsx_atm" ELSE IF ext = ".pdf" THEN "parse_inv_billetes_pdf_common" ELSE NoParser)
                 ELSE IF tipo = "INV_BILLETES_BCO" THEN
                      (IF ext = ".pdf" THEN "parse_inv_billetes_pdf_common" ELSE IF xl THEN "parse_inv_billetes_xlsx_atm" ELSE NoParser)
                 ELSE IF tipo = "EC_EFECT_ATM" /\ xl THEN "parse_ec_efect_xlsx_generic"
                 ELSE IF tipo = "EC_EFECT_BCO" /\ xl THEN "parse_ec_efect_xlsx_generic"
                 ELSE NoParser
          [] v = "v4" ->
                 IF tipo \in {"INV_BILLETES_ATM", "INV_BILLETES_BCO"} THEN
                      (IF xl THEN "parse_inv_xlsx_generic" ELSE IF ext = ".pdf" THEN "parse_inv_pdf_common" ELSE NoParser)
                 ELSE IF tipo \in {"EC_EFECT_ATM", "EC_EFECT_BCO"} THEN
                      (IF xl THEN "parse_ec_xlsx_generic" ELSE NoParser)
                 ELSE IF tipo = "EC_BULTO_ATM" /\ xl THEN "parse_ec_xlsx_generic"
                 ELSE NoParser
          [] v = "b4" ->
                 IF tipo = "EC_EFECT_BCO" /\ xl THEN "parse_ec_efect_bco_xlsx"
                 ELSE IF tipo \in {"INV_BILLETES_BCO", "INV_BILLETES_ATM"} /\ ext = ".pdf" THEN "parse_inv_billetes_pdf"
                 ELSE NoParser

\* the content-based resolution of process_file (v3, v4): PDFs whose name gave no type
ResolveByContent(v, tipo, ext, text_preview) ==
    LET up_text == upper(text_preview)
    IN  IF v \in {"v3", "v4"} /\ tipo \in {NoTipo, "INV_BILLETES_UNKNOWN"} /\ ext = ".pdf"
        THEN IF v = "v3"
             THEN (IF \/ \E i \in 1..Len(up_text) :
                            LET e == WsSeqEnd(up_text, i, <<"INVENTARIO", "DE", "BILLETES">>)
                            IN  e # 0 /\ \E k \in e..Len(up_text) :
                                               MatchAt(up_text, k, "ATM") /\ \A j \in e..(k - 1) : CharAt(up_text, j) # "\n"
                      \/ SearchWordWs(up_text, <<"ATM">>)
                   THEN "INV_BILLETES_ATM" ELSE "INV_BILLETES_BCO")
             ELSE (IF SearchWordWs(up_text, <<"ATM">>) THEN "INV_BILLETES_ATM" ELSE "INV_BILLETES_BCO")
        ELSE tipo

\* no file handled yet
NoRes == [n |-> 0, tipo |-> NoTipo, agencia |-> "", is_itau |-> FALSE, parser |-> NoParser, sinmov |-> FALSE, tipo0 |-> NoTipo]

\* the try-block and the return of process_file
ProcessFileParsed(v, d, ext, tipo0, tipo, agencia) ==
    [n |-> ExtractorRecords(v, SelectParser(v, tipo, ext), d), tipo |-> tipo, agencia |-> agencia,
     is_itau |-> TRUE, parser |-> SelectParser(v, tipo, ext), sinmov |-> FALSE, tipo0 |-> tipo0]

\* The tail of process_file, given what its calls returned:
\*   tipo0 = dispatch_tipo(...), is_itau = the gate, sinmov = the no-movements test,
\*   text_preview = unir_letras_separadas(file_text_preview(path)),
\*   agencia_from_text = parse_agencia_from_text(...), cod = its agency code,
\*   by_name = infer_agencia_from_filename(fname)
ProcessFileResult(v, d, ext, tipo0, is_itau, sinmov, text_preview, agencia_from_text, cod, by_name) ==
    LET hint == d.folder
    IN  IF ~is_itau THEN
            [n |-> 0, tipo |-> IF v = "b4" THEN tipo0 ELSE NoTipo, agencia |-> hint,
             is_itau |-> FALSE, parser |-> NoParser, sinmov |-> FALSE, tipo0 |-> tipo0]
        ELSE IF sinmov THEN
            [n |-> 0, tipo |-> tipo0,
             agencia |-> CASE v = "v3" -> Or(agencia_from_text, Or(by_name, hint))
                           [] v = "v4" -> Or(cod, Or(by_name, hint))
                           [] v = "b4" -> Or(agencia_from_text, Or(hint, "N/A")),
             is_itau |-> TRUE, parser |-> NoParser, sinmov |-> TRUE, tipo0 |-> tipo0]
        ELSE
            LET agencia_norm ==
                    CASE v = "v3" -> Or(cod, Or(by_name, Or(hint, agencia_from_text)))
                      [] v = "v4" -> Or(cod, Or(by_name, hint))
                      [] v = "b4" -> Or(agencia_from_text, hint)
            IN  ProcessFileParsed(v, d, ext, tipo0, ResolveByContent(v, tipo0, ext, text_preview),
                                  IF v = "v3" THEN Or(agencia_norm, hint) ELSE agencia_norm)

\* The text parse_agencia_from_text is applied to: v3 joins spaced letters first, b4
\* never does, v4 does except on the no-movements path
AgenciaSource(v, preview, text_preview, sinmov) ==
    IF v = "v3" \/ (v = "v4" /\ ~sinmov) THEN text_preview ELSE preview

ProcessFileAgencia(v, d, ext, tipo0, is_itau, sinmov, text_preview, agencia_from_text) ==
    ProcessFileResult(v, d, ext, tipo0, is_itau, sinmov, text_preview, agencia_from_text,
                      normalize_agencia_to_cod(v, agencia_from_text), infer_agencia_from_filename(PathName(d)))

ProcessFileGate(v, d, ext, tipo0, is_itau, sinmov, text_preview) ==
    ProcessFileAgencia(v, d, ext, tipo0, is_itau, sinmov, text_preview,
                       parse_agencia_from_text(v, AgenciaSource(v, file_text_preview(v, d, TRUE), text_preview, sinmov)))

ProcessFileTipo(v, d, tipo0) ==
    ProcessFileGate(v, d, lower(d.ext), tipo0, detect_cliente_itau(v, PathName(d), file_text_preview(v, d, TRUE), tipo0),
                    detect_sin_movimientos(v, file_text_preview(v, d, TRUE)),
                    unir_letras_separadas(file_text_preview(v, d, TRUE)))

\* process_file(path, parent_agency_hint): the returned (df, tipo, agencia, is_itau),
\* df given by its number of records n; parser, sinmov and tipo0 (the type by
\* dispatch_tipo) record the path taken
process_file(v, d) == ProcessFileTipo(v, d, dispatch_tipo(v, PathName(d), file_text_preview(v, d, TRUE)))

(***************************************************************************)
(* Consolidated writer and archiver                                        *)
(***************************************************************************)
\* A line of an output file: the header, or a data row
HeaderLine == <<"HEADER">>
RowLine(r, d, k) == <<"ROW", r, d.folder, PathName(d), k>>
\* the DataFrame an extractor returned for d in run r: n records in row order
DataFrame(r, d, n) == [k \in 1..n |-> RowLine(r, d, k)]

\* write_consolidated(tipo, df): the output file of tipo afterwards.
\* file is its content before (<<>>: it does not exist), rw is RUN_WRITTEN
WriteFile(v, tipo, df, file, rw) ==
    IF tipo \notin OUTPUT_FILES \/ df = <<>> THEN file
    ELSE IF tipo \notin rw
         THEN (IF v = "b4" THEN file \o <<HeaderLine>> \o df   \* mode 'a', header
               ELSE <<HeaderLine>> \o df)                       \* unlink, mode 'w', header
         ELSE file \o df                                        \* mode 'a', no header

\* write_consolidated(tipo, df): RUN_WRITTEN afterwards
WriteMark(v, tipo, df, rw) ==
    IF tipo \notin OUTPUT_FILES \/ df = <<>> THEN rw ELSE rw \cup {tipo}

\* the guard of run() on the call of write_consolidated
RunWrites(v, res) ==
    CASE v = "v3" -> res.tipo # NoTipo /\ res.n > 0
      [] v = "v4" -> res.n > 0 /\ res.tipo \in OUTPUT_FILES
      [] v = "b4" -> res.is_itau /\ res.tipo # NoTipo /\ res.n > 0

\* str(i) of the collision counter
CounterStr(i) == CASE i = 1 -> "1" [] i = 2 -> "2" [] i = 3 -> "3" [] i = 4 -> "4" [] i = 5 -> "5"
                   [] i = 6 -> "6" [] i = 7 -> "7" [] i = 8 -> "8" [] OTHER -> "9"

\* datetime.now().strftime("%Y%m%d_%H%M%S") at second t of the day
Timestamp(t) == "20240101_00000" \o (IF t = 0 THEN "0" ELSE CounterStr(t))

\* move_original (v3, b4) / the branches of run (v4): the folder under PROCESADO
ArchiveDir(v, res, hint) ==
    LET agencia == Or(res.agencia, hint)
    IN  CASE v = "v3" -> Or(strip(upper(agencia)), "ASU")
          [] v = "v4" -> Or(agencia, "ASU")
          [] v = "b4" -> IF agencia # "" /\ agencia \in AgencySet(v) THEN upper(agencia) ELSE "SIN_AGENCIA"

\* rename_processed of safe_move: gate passed, no records, type has an output file
RenameProcessed(res) == res.is_itau /\ res.n = 0 /\ res.tipo \in OUTPUT_FILES

\* procesado_exitoso of b4's run
ProcesadoExitoso(v, d, res) == res.is_itau /\ (res.n > 0 \/ detect_sin_movimientos(v, file_text_preview(v, d, TRUE)))

\* the name the file is to get, before any collision handling
ArchiveBase(v, d, res, t) ==
    IF v = "b4"
    THEN d.stem \o "_" \o (IF ProcesadoExitoso(v, d, res) THEN "OK" ELSE "ERROR") \o "_" \o Timestamp(t) \o d.ext
    ELSE IF RenameProcessed(res) THEN d.stem \o " PROCESADO" \o d.ext
    ELSE PathName(d)

\* Path(base).stem: the name without its last suffix (names here hold one dot)
StemOf(base, ext) == SubSeq(base, 1, Len(base) - Len(ext))

\* safe_move: the first free name among base, "stem (1).ext", "stem (2).ext", ...;
\* b4 moves onto base whatever is there.  taken: the names present in the folder
ArchiveName(v, base, ext, taken) ==
    IF v = "b4" \/ base \notin taken THEN base
    ELSE LET Cand(i) == StemOf(base, ext) \o " (" \o CounterStr(i) \o ")" \o ext
             i == CHOOSE x \in 1..9 : Cand(x) \notin taken /\ \A y \in 1..(x - 1) : Cand(y) \in taken
         IN  Cand(i)

\* collect_pending_files: the extensions scanned (b4 skips "~" lock files)
Collectable(v, d) ==
    /\ lower(d.ext) \in {".xlsx", ".xls", ".pdf"}
    /\ v = "b4" => ~StartsWith(PathName(d), "~")

(***************************************************************************)
(* The documents agencies deposit                                          *)
(***************************************************************************)
Doc(folder, stem, ext, text, rows) ==
    [folder |-> folder, stem |-> stem, ext |-> ext, text |-> text, rows |-> rows, fail |-> ""]

\* the document d with something going wrong
Failing(d, how) == [d EXCEPT !.fail = how]

Docs == {
    Doc("ASU", "EC_EFECTIVO_BCO", ".xlsx", "ESTADO DE CUENTA CLIENTE: ITAU (SUC: ASUNCION)", 2),
    Doc("CDE", "EC_EFECTIVO_BCO", ".xlsx", "BANCO ITAU (SUC: ASUNCION)", 1),
    Doc("ASU", "EC_EFECTIVO_ATM", ".xlsx", "ESTADO DE CUENTA", 1),
    Doc("CDE", "EC_EFECT_ATM", ".xlsx", "BANCO CONTINENTAL", 1),
    Doc("ASU", "EC_BULTO_ATM", ".xlsx", "CLIENTE: ITAU SIN MOVIMIENTOS (SUC: LUQUE)", 2),
    Doc("CDE", "INV_BILLETES_BCO", ".pdf", "CLIENTE: ITAU", 0),
    Doc("CDE", "NOTA", ".xlsx", "CLIENTE: ITAU", 1),
    Failing(Doc("CDE", "EC_BULTO_ATM", ".xlsx", "CLIENTE: ITAU", 1), "parse"),
    Failing(Doc("ASU", "INV_BILLETES_ATM", ".xlsx", "CLIENTE: ITAU", 1), "corrupt"),
    Failing(Doc("CDE", "INV_BILLETES_ATM", ".pdf", "CLIENTE: ITAU", 1), "move")
}

\* The file names the classifier and the gate are tried on: up to MaxTokens of
\* these words, in this order, joined by "_"
NameTokens == <<"INV", "EC", "EFECTIVO", "BULTO", "BILLETES", "ATM", "BCO", "ATLAS">>

RECURSIVE JoinTokens(_, _)
JoinTokens(S, i) ==
    IF i > Len(NameTokens) THEN ""
    ELSE IF i \in S
         THEN NameTokens[i] \o (IF \E j \in S : j > i THEN "_" ELSE "") \o JoinTokens(S, i + 1)
         ELSE JoinTokens(S, i + 1)

ProbeStems == {JoinTokens(S, 1) : S \in {T \in SUBSET (1..Len(NameTokens)) : T # {} /\ Cardinality(T) <= MaxTokens}}

ProbeTexts == {"", "CLIENTE: ITAU", "ATLAS CLIENTE: ITAU", "ITAU INVENTARIO DE BILLETES DE ATM"}

\* the preview texts of the twin
TwinTexts == {"CLIENTE: ITAU", "ITAU INVENTARIO DE BILLETES DE ATM"}

(***************************************************************************)
(* State                                                                   *)
(***************************************************************************)
VARIABLES
    variant,      \* which generation of the program runs
    pendientes,   \* the files lying in PENDIENTES, in directory order
    procesado,    \* the files under PROCESADO: records [dir, name, src, run]
    csv,          \* today's output file of every type: its lines (<<>>: no file)
    RUN_WRITTEN,  \* the types this process has started a file for
    pc,           \* "idle": no process; "running": inside the loop of run();
                  \* "aborted": an exception left run() and ended the process
    pend,         \* the files collected by this run and not yet processed
    runs,         \* the number of runs started
    now,          \* the clock, in seconds
    deposited,    \* how many files were deposited so far
    written,      \* history: per type, the rows passed to write_consolidated in this run
    last,         \* history: the file the loop handled last and what became of it
    lost,         \* history: archived files that were overwritten
    probe,        \* one file given to process_file on its own, and its twin: the
                  \* same file with the preview text text2
    call          \* one call of a function on its own: its name fn, its arguments
                  \* arg, and once it is done its outcome out

vars == <<variant, pendientes, procesado, csv, RUN_WRITTEN, pc, pend, runs, now, deposited, written, last, lost, probe, call>>

Variants == {"v3", "v4", "b4"}

NoDoc == Doc("", "", "", "", 0)
\* end: "moved": archived; "left": the move failed and was logged; "raised": an
\* exception left run() while the file was handled
NoLast == [doc |-> NoDoc, res |-> NoRes, dir |-> "", base |-> "", name |-> "", run |-> 0, end |-> ""]
NoProbe == [doc |-> NoDoc, text2 |-> "", done |-> TRUE, res |-> NoRes, res2 |-> NoRes]
NoCall == [fn |-> "", arg |-> <<>>, done |-> TRUE, out |-> <<>>]

Init ==
    /\ variant \in Variants
    /\ pendientes = <<>>
    /\ procesado = {}
    /\ csv = [t \in OUTPUT_FILES |-> <<>>]
    /\ RUN_WRITTEN = {}
    /\ pc = "idle"
    /\ pend = <<>>
    /\ runs = 0
    /\ now = 0
    /\ deposited = 0
    /\ written = [t \in OUTPUT_FILES |-> <<>>]
    /\ last = NoLast
    /\ lost = {}
    /\ probe = NoProbe
    /\ call = NoCall

SeqSet(q) == {q[i] : i \in 1..Len(q)}

\* the sequence q without its elements that fail Keep
RECURSIVE SelectDocs(_, _, _)
SelectDocs(q, v, a) ==
    IF q = <<>> THEN <<>>
    ELSE (IF Head(q).folder = a /\ Collectable(v, Head(q)) THEN <<Head(q)>> ELSE <<>>) \o SelectDocs(Tail(q), v, a)

\* collect_pending_files: agency by agency, each folder in directory order
RECURSIVE CollectFrom(_, _, _)
CollectFrom(q, v, i) ==
    IF i > Len(AGENCIES(v)) THEN <<>> ELSE SelectDocs(q, v, AGENCIES(v)[i]) \o CollectFrom(q, v, i + 1)
collect_pending_files(v, q) == CollectFrom(q, v, 1)

RECURSIVE Without(_, _)
Without(q, d) == IF q = <<>> THEN <<>> ELSE (IF Head(q) = d THEN <<>> ELSE <<Head(q)>>) \o Without(Tail(q), d)

\* An agency drops a document into its folder of PENDIENTES
Deposit(d) ==
    /\ pc \in {"idle", "aborted"}
    /\ deposited < MaxFiles
    /\ \A e \in SeqSet(pendientes) : ~(e.folder = d.folder /\ PathName(e) = PathName(d))
    /\ pendientes' = Append(pendientes, d)
    /\ deposited' = deposited + 1
    /\ UNCHANGED <<variant, procesado, csv, RUN_WRITTEN, pc, pend, runs, now, written, last, lost, probe, call>>

\* A second passes
Tick ==
    /\ now < MaxClock
    /\ now' = now + 1
    /\ UNCHANGED <<variant, pendientes, procesado, csv, RUN_WRITTEN, pc, pend, runs, deposited, written, last, lost, probe, call>>

\* The program is started: module globals are fresh, run() scans PENDIENTES
StartRun ==
    /\ pc \in {"idle", "aborted"}
    /\ runs < MaxRuns
    /\ runs' = runs + 1
    /\ RUN_WRITTEN' = {}
    /\ written' = [t \in OUTPUT_FILES |-> <<>>]
    /\ pend' = collect_pending_files(variant, pendientes)
    /\ pc' = "running"
    /\ UNCHANGED <<variant, pendientes, procesado, csv, now, deposited, last, lost, probe, call>>

\* shutil.move of d raises
MoveFails(d) == d.fail = "move"

\* The iteration for file d, given res = process_file(d), the folder dir it is
\* archived in and the name it gets there.  shutil.move is the last call of the
\* iteration: when it raises, b4's move_original logs the error and the loop
\* goes on, while in v3 and v4 the exception leaves safe_move, the loop and run()
ProcessMove(d, res, dir, base, name) ==
    /\ csv' = IF RunWrites(variant, res) /\ res.tipo \in OUTPUT_FILES
              THEN [csv EXCEPT ![res.tipo] = WriteFile(variant, res.tipo, DataFrame(runs, d, res.n), csv[res.tipo], RUN_WRITTEN)]
              ELSE csv
    /\ RUN_WRITTEN' = IF RunWrites(variant, res) THEN WriteMark(variant, res.tipo, DataFrame(runs, d, res.n), RUN_WRITTEN) ELSE RUN_WRITTEN
    /\ written' = IF RunWrites(variant, res) /\ res.tipo \in OUTPUT_FILES
                  THEN [written EXCEPT ![res.tipo] = @ \o DataFrame(runs, d, res.n)]
                  ELSE written
    /\ IF MoveFails(d)
       THEN /\ UNCHANGED <<procesado, lost, pendientes>>
            /\ pend' = IF variant = "b4" THEN Tail(pend) ELSE <<>>
            /\ pc' = IF variant = "b4" THEN pc ELSE "aborted"
            /\ last' = [doc |-> d, res |-> res, dir |-> dir, base |-> base, name |-> name, run |-> runs,
                        end |-> IF variant = "b4" THEN "left" ELSE "raised"]
       ELSE /\ procesado' = {f \in procesado : ~(f.dir = dir /\ f.name = name)}
                                \cup {[dir |-> dir, name |-> name, src |-> d, run |-> runs]}
            /\ lost' = lost \cup {f \in procesado : f.dir = dir /\ f.name = name}
            /\ pendientes' = Without(pendientes, d)
            /\ pend' = Tail(pend)
            /\ pc' = pc
            /\ last' = [doc |-> d, res |-> res, dir |-> dir, base |-> base, name |-> name, run |-> runs, end |-> "moved"]
    /\ UNCHANGED <<variant, runs, now, deposited, probe, call>>

\* base: the name the file is to get in dir
ProcessBase(d, res, dir, base) ==
    ProcessMove(d, res, dir, base, ArchiveName(variant, base, d.ext, {f.name : f \in {g \in procesado : g.dir = dir}}))

ProcessArchive(d, res, dir) == ProcessBase(d, res, dir, ArchiveBase(variant, d, res, now))

ProcessResult(d, res) == ProcessArchive(d, res, ArchiveDir(variant, res, d.folder))

\* process_file(d) raises: the gate calls file_text_preview outside any try, the
\* exception leaves process_file, the loop and run()
ProcessRaise(d) ==
    /\ pc' = "aborted"
    /\ pend' = <<>>
    /\ last' = [doc |-> d, res |-> NoRes, dir |-> "", base |-> "", name |-> "", run |-> runs, end |-> "raised"]
    /\ UNCHANGED <<variant, pendientes, procesado, csv, RUN_WRITTEN, runs, now, deposited, written, lost, probe, call>>

\* One iteration of the loop of run(): process_file, write_consolidated, move
ProcessNext ==
    /\ pc = "running"
    /\ pend # <<>>
    /\ IF PreviewRaises(variant, Head(pend))
       THEN ProcessRaise(Head(pend))
       ELSE ProcessResult(Head(pend), process_file(variant, Head(pend)))

\* run() returns its statistics and the process ends
EndRun ==
    /\ pc = "running"
    /\ pend = <<>>
    /\ pc' = "idle"
    /\ UNCHANGED <<variant, pendientes, procesado, csv, RUN_WRITTEN, pend, runs, now, deposited, written, last, lost, probe, call>>

Next ==
    \/ \E d \in Docs : Deposit(d)
    \/ Tick
    \/ StartRun
    \/ ProcessNext
    \/ EndRun

Spec == Init /\ [][Next]_vars

\* The process, once started, keeps executing: the loop of run() takes its next
\* iteration and run() returns after the last one.  LoopFair is weak fairness of
\* ProcessNext, which is enabled exactly when the loop has a file left and
\* whose every step takes the head off pend
LoopFair ==
    \/ []<>(~(pc = "running" /\ pend # <<>>))
    \/ []<>(<<pc = "running" /\ pend # <<>> /\ pend' # pend>>_vars)

SpecLive == Init /\ [][Next]_vars /\ LoopFair /\ WF_vars(EndRun)

(***************************************************************************)
(* process_file on one file: the inputs are drawn at the start, the one    *)
(* step applies process_file to the file and to its twin                   *)
(***************************************************************************)
InitFile ==
    /\ variant \in Variants
    /\ pendientes = <<>>
    /\ procesado = {}
    /\ csv = [t \in OUTPUT_FILES |-> <<>>]
    /\ RUN_WRITTEN = {}
    /\ pc = "idle"
    /\ pend = <<>>
    /\ runs = 0
    /\ now = 0
    /\ deposited = 0
    /\ written = [t \in OUTPUT_FILES |-> <<>>]
    /\ last = NoLast
    /\ lost = {}
    /\ \E stem \in ProbeStems, ext \in {".xlsx", ".pdf"}, text \in ProbeTexts, text2 \in TwinTexts :
           probe = [doc |-> Doc("ASU", stem, ext, text, 1), text2 |-> text2, done |-> FALSE, res |-> NoRes, res2 |-> NoRes]
    /\ call = NoCall

Classify ==
    /\ ~probe.done
    /\ probe' = [probe EXCEPT !.done = TRUE,
                              !.res = process_file(variant, probe.doc),
                              !.res2 = process_file(variant, [probe.doc EXCEPT !.text = probe.text2])]
    /\ UNCHANGED <<variant, pendientes, procesado, csv, RUN_WRITTEN, pc, pend, runs, now, deposited, written, last, lost, call>>

NextFile == Classify

SpecFile == InitFile /\ [][NextFile]_vars

(***************************************************************************)
(* One function on its own: the arguments are drawn at the start, the one  *)
(* step applies the function                                               *)
(***************************************************************************)
\* no run, no file: the state of everything but variant and call
IdleRun ==
    /\ pendientes = <<>>
    /\ procesado = {}
    /\ csv = [t \in OUTPUT_FILES |-> <<>>]
    /\ RUN_WRITTEN = {}
    /\ pc = "idle"
    /\ pend = <<>>
    /\ runs = 0
    /\ now = 0
    /\ deposited = 0
    /\ written = [t \in OUTPUT_FILES |-> <<>>]
    /\ last = NoLast
    /\ lost = {}
    /\ probe = NoProbe

runVars == <<variant, pendientes, procesado, csv, RUN_WRITTEN, pc, pend, runs, now, deposited, written, last, lost, probe>>

\* file_text_preview is tried on sources of every extension, sound or failing
InitPreview ==
    /\ variant \in Variants
    /\ IdleRun
    /\ \E ext \in {".xlsx", ".xls", ".pdf", ".txt"}, fail \in {"", "corrupt", "unreadable", "badsheet"},
          text \in {"CLIENTE: ITAU", "NOTA"}, pdflib \in BOOLEAN :
           /\ fail = "badsheet" => ext \in {".xlsx", ".xls"}
           /\ call = [fn |-> "file_text_preview",
                      arg |-> [src |-> Failing(Doc("ASU", "NOTA", ext, text, 0), fail), pdflib |-> pdflib],
                      done |-> FALSE, out |-> [raised |-> FALSE, text |-> ""]]

Preview ==
    /\ call.fn = "file_text_preview" /\ ~call.done
    /\ call' = [call EXCEPT !.done = TRUE,
                            !.out = IF PreviewRaises(variant, call.arg.src)
                                    THEN [raised |-> TRUE, text |-> ""]
                                    ELSE [raised |-> FALSE, text |-> file_text_preview(variant, call.arg.src, call.arg.pdflib)]]
    /\ UNCHANGED runVars

SpecPreview == InitPreview /\ [][Preview]_vars

(***************************************************************************)
(* parse_numeric.  A float is held exactly, as the decimal m / 10^e with   *)
(* the smallest e; None is the record with none = TRUE                     *)
(***************************************************************************)
MaxNumLen == 5

None == [none |-> TRUE, m |-> 0, e |-> 0]

RECURSIVE Num(_, _)
Num(m, e) == IF e > 0 /\ m % 10 = 0 THEN Num(m \div 10, e - 1) ELSE [none |-> FALSE, m |-> m, e |-> e]

\* the sign is kept
NegDropped(x) == x

\* -x
Neg(x) == IF x.none THEN x ELSE [x EXCEPT !.m = 0 - x.m]

\* re.sub of a character class / str.replace of one character: every character
\* of s that is in from is replaced by to
RECURSIVE ReplaceChars(_, _, _)
ReplaceChars(s, from, to) ==
    IF s = "" THEN ""
    ELSE (IF CharAt(s, 1) \in from THEN to ELSE CharAt(s, 1)) \o ReplaceChars(Slice(s, 2, Len(s)), from, to)

\* int(s) of a string of digits ("" gives 0)
RECURSIVE DigitsValue(_)
DigitsValue(s) ==
    IF s = "" THEN 0
    ELSE 10 * DigitsValue(Slice(s, 1, Len(s) - 1))
         + (CHOOSE n \in 0..9 : CharAt(s, Len(s)) = CharAt("0123456789", n + 1))

\* s.rfind(c): the last position of c in s, 0 when there is none
RFind(s, c) == IF \E i \in 1..Len(s) : CharAt(s, i) = c
               THEN CHOOSE i \in 1..Len(s) : CharAt(s, i) = c /\ \A j \in (i + 1)..Len(s) : CharAt(s, j) # c
               ELSE 0

\* float(s) for s free of letters, signs other than "-" and blanks; None stands
\* for the ValueError
PyFloat(s) ==
    LET body == IF StartsWith(s, "-") THEN Slice(s, 2, Len(s)) ELSE s
        dot == RFind(body, ".")
        digs == ReplaceChars(body, {"."}, "")
    IN  IF /\ digs # ""
           /\ \A i \in 1..Len(digs) : CharAt(digs, i) \in Digits
           /\ Len(body) - Len(digs) <= 1
        THEN Num((IF StartsWith(s, "-") THEN 0 - 1 ELSE 1) * DigitsValue(digs),
                 IF dot = 0 THEN 0 ELSE Len(body) - dot)
        ELSE None

\* the characters NUM_SANITIZER keeps
NumChars == Digits \cup {",", ".", "-", "(", ")", " ", " "}

\* parse_numeric(val) of a str
parse_numeric(val) ==
    LET kept == ReplaceChars(val, {CharAt(val, i) : i \in 1..Len(val)} \ NumChars, "")
        s0 == strip(ReplaceChars(kept, {" "}, " "))
        neg == StartsWith(s0, "(") /\ CharAt(s0, Len(s0)) = ")"
        s1 == ReplaceChars(IF neg THEN strip(Slice(s0, 2, Len(s0) - 1)) ELSE s0, {" "}, "")
        s2 == IF Contains(s1, ",") /\ Contains(s1, ".")
              THEN (IF RFind(s1, ".") > RFind(s1, ",")
                    THEN ReplaceChars(s1, {","}, "")
                    ELSE ReplaceChars(ReplaceChars(s1, {"."}, ""), {","}, "."))
              ELSE IF Contains(s1, ",")
                   THEN (IF Len(s1) - RFind(s1, ",") <= 2
                         THEN ReplaceChars(s1, {","}, ".")
                         ELSE ReplaceChars(s1, {","}, ""))
                   ELSE s1
    IN  IF s0 = "" THEN None
        ELSE IF neg THEN Neg(PyFloat(s2)) ELSE PyFloat(s2)

\* the strings parse_numeric is tried on: the amounts of the documents and every
\* string of at most MaxNumLen of these characters
RECURSIVE StringsUpTo(_, _)
StringsUpTo(A, n) ==
    IF n = 0 THEN {""}
    ELSE LET P == StringsUpTo(A, n - 1) IN P \cup {p \o c : p \in P, c \in A}

NumericInputs ==
    {"1.234,56", "(100)", "1,5", "1,500", "1.000.000", " 2.500 ", "Gs. 1.500,5", "1,234,567", "(1,25)", "12,345.6"}
        \cup StringsUpTo({"1", ",", ".", "(", ")", "-"}, MaxNumLen)

InitNumeric ==
    /\ variant \in Variants
    /\ IdleRun
    /\ \E val \in NumericInputs : call = [fn |-> "parse_numeric", arg |-> val, done |-> FALSE, out |-> None]

ParseNumeric ==
    /\ call.fn = "parse_numeric" /\ ~call.done
    /\ call' = [call EXCEPT !.done = TRUE, !.out = parse_numeric(call.arg)]
    /\ UNCHANGED runVars

SpecNumeric == InitNumeric /\ [][ParseNumeric]_vars

(***************************************************************************)
(* to_ddmmyyyy.  A cell value is a text (kind "str"), a number (kind       *)
(* "num", n the Excel serial), a datetime (kind "datetime", n its day      *)
(* number, 1 for 0001-01-01) or NaN.  None is "", a raised OverflowError   *)
(* is "OverflowError"                                                      *)
(***************************************************************************)
Cell(kind, s, n) == [kind |-> kind, s |-> s, n |-> n]

\* the days from 0001-01-01 to the first day of month m of year y (m = 13: of
\* the next year)
DaysBefore(y, m) ==
    LET p == y - 1
        leap == y % 4 = 0 /\ (y % 100 # 0 \/ y % 400 = 0)
        cum == <<0, 31, 59, 90, 120, 151, 181, 212, 243, 273, 304, 334, 365>>
    IN  365 * p + (p \div 4) - (p \div 100) + (p \div 400) + cum[m] + (IF leap /\ m > 2 THEN 1 ELSE 0)

\* date.fromordinal(n) as <<year, month, day>>
FromOrdinal(n) ==
    LET y == CHOOSE y \in Max(1, n \div 366)..(n \div 365 + 1) : DaysBefore(y, 1) < n /\ n <= DaysBefore(y, 13)
        m == CHOOSE m \in 1..12 : DaysBefore(y, m) < n /\ n <= DaysBefore(y, m + 1)
    IN  <<y, m, n - DaysBefore(y, m)>>

\* "%0wd" % n: the decimal digits of n, zero-padded to w characters
RECURSIVE Pad(_, _)
Pad(n, w) == IF n = 0 /\ w <= 0 THEN "" ELSE Pad(n \div 10, w - 1) \o CharAt("0123456789", (n % 10) + 1)

\* d.strftime("%d/%m/%Y"); the C library leaves a year below 1000 unpadded
strftime(d) == Pad(d[3], 2) \o "/" \o Pad(d[2], 2) \o "/" \o Pad(d[1], 1)

\* s cut at its occurrences of the character sep
RECURSIVE Split(_, _)
Split(s, sep) ==
    IF ~Contains(s, sep) THEN <<s>>
    ELSE LET i == CHOOSE i \in 1..Len(s) : CharAt(s, i) = sep /\ \A j \in 1..(i - 1) : CharAt(s, j) # sep
         IN  <<Slice(s, 1, i - 1)>> \o Split(Slice(s, i + 1, Len(s)), sep)

\* datetime.strptime(s, fmt) for a format of three directives and a one-character
\* separator, as <<year, month, day>>; <<>> stands for the ValueError
strptime(s, fmt) ==
    LET f == Split(s, CharAt(fmt, 3))
        dirs == <<CharAt(fmt, 2), CharAt(fmt, 5), CharAt(fmt, 8)>>
        IsNum(x) == x # "" /\ \A i \in 1..Len(x) : CharAt(x, i) \in Digits
        \* the value of field x under directive c, -1 when the field does not match
        Field(c, x) ==
            CASE c = "Y" -> IF IsNum(x) /\ Len(x) = 4 THEN DigitsValue(x) ELSE 0 - 1
              [] c = "y" -> IF IsNum(x) /\ Len(x) = 2
                            THEN (IF DigitsValue(x) >= 69 THEN 1900 ELSE 2000) + DigitsValue(x) ELSE 0 - 1
              [] c = "m" -> IF IsNum(x) /\ Len(x) <= 2 /\ DigitsValue(x) \in 1..12 THEN DigitsValue(x) ELSE 0 - 1
              [] c = "d" -> IF IsNum(x) /\ Len(x) <= 2 /\ DigitsValue(x) \in 1..31 THEN DigitsValue(x)
                            ELSE IF Len(x) = 2 /\ CharAt(x, 1) = " " /\ CharAt(x, 2) \in Digits \ {"0"}
                                 THEN DigitsValue(CharAt(x, 2)) ELSE 0 - 1
        Of(c) == Field(c, f[CHOOSE k \in 1..3 : dirs[k] = c])
        y == IF "Y" \in {dirs[k] : k \in 1..3} THEN Of("Y") ELSE Of("y")
    IN  IF Len(f) # 3 THEN <<>>
        ELSE IF y < 1 \/ Of("m") < 1 \/ Of("d") < 1 THEN <<>>
        ELSE IF Of("d") > DaysBefore(y, Of("m") + 1) - DaysBefore(y, Of("m")) THEN <<>>
        ELSE <<y, Of("m"), Of("d")>>

\* DATE_RE.match(s) for a stripped s
DATE_RE(v, s) ==
    LET f == Split(s, "/")
    IN  /\ Len(f) = 3
        /\ \A k \in 1..3 : \A i \in 1..Len(f[k]) : CharAt(f[k], i) \in Digits
        /\ Len(f[3]) = 4
        /\ \A k \in 1..2 : Len(f[k]) = 2 \/ (v = "b4" /\ Len(f[k]) = 1)

\* to_ddmmyyyy(val) of generation v
to_ddmmyyyy(v, val) ==
    LET s == strip(val.s)
        fmts == IF v = "v4" THEN <<"%Y-%m-%d", "%d-%m-%Y", "%d/%m/%y", "%d/%m/%Y", "%m/%d/%Y">>
                ELSE <<"%Y-%m-%d", "%d-%m-%Y", "%d/%m/%y">>
        ok == {k \in 1..Len(fmts) : strptime(s, fmts[k]) # <<>>}
        \* 1899-12-30 is day 693594
        day == 693594 + val.n
    IN  CASE val.kind = "datetime" -> strftime(FromOrdinal(val.n))
          [] val.kind = "num" -> IF day \in 1..DaysBefore(9999, 13) THEN strftime(FromOrdinal(day))
                                 ELSE IF v = "v4" THEN "OverflowError" ELSE ""
          [] val.kind = "str" -> IF s = "" THEN ""
                                 ELSE IF DATE_RE(v, s) THEN s
                                 ELSE IF ok = {} THEN ""
                                 ELSE strftime(strptime(s, fmts[CHOOSE k \in ok : \A j \in ok : k <= j]))
          [] OTHER -> ""

\* the dates the conversion is tried on
SampleDates == {<<2024, 2, 1>>, <<2024, 2, 29>>, <<1999, 12, 31>>, <<1969, 7, 4>>, <<2068, 10, 5>>}

\* the representations of date d a cell can hold: the Excel serial, a datetime
\* and the texts yyyy-mm-dd, dd-mm-yyyy, dd/mm/yy, dd/mm/yyyy, the last also as
\* it is typed without leading zeros and with blanks around it
Representations(d) ==
    LET dd == Pad(d[3], 2)
        mm == Pad(d[2], 2)
        yyyy == Pad(d[1], 4)
        n == DaysBefore(d[1], d[2]) + d[3]
    IN  {Cell("num", "", n - 693594), Cell("datetime", "", n)}
        \cup {Cell("str", t, 0) : t \in {yyyy \o "-" \o mm \o "-" \o dd,
                                         dd \o "-" \o mm \o "-" \o yyyy,
                                         dd \o "/" \o mm \o "/" \o Slice(yyyy, 3, 4),
                                         dd \o "/" \o mm \o "/" \o yyyy,
                                         Pad(d[3], 1) \o "/" \o Pad(d[2], 1) \o "/" \o yyyy,
                                         " " \o dd \o "/" \o mm \o "/" \o yyyy \o " "}}

\* cells that hold no date
OtherCells ==
    {Cell("str", t, 0) : t \in {"", "TOTAL", "123456", "31/02/2024", "2/13/2024", "2024-02-30", "1.000.000"}}
        \cup {Cell("nan", "", 0), Cell("num", "", 3000000), Cell("num", "", 0 - 700000)}

InitDate ==
    /\ variant \in Variants
    /\ IdleRun
    /\ \E d \in SampleDates : \E a \in Representations(d) \cup OtherCells :
         \E b \in (IF a \in OtherCells THEN {a} ELSE Representations(d)) :
           call = [fn |-> "to_ddmmyyyy", arg |-> <<d, a, b>>, done |-> FALSE, out |-> <<>>]

ToDate ==
    /\ call.fn = "to_ddmmyyyy" /\ ~call.done
    /\ call' = [call EXCEPT !.done = TRUE,
                            !.out = <<to_ddmmyyyy(variant, call.arg[2]), to_ddmmyyyy(variant, call.arg[3])>>]
    /\ UNCHANGED runVars

SpecDate == InitDate /\ [][ToDate]_vars

(***************************************************************************)
(* The statement extractors.  A sheet is the sequence of its rows, a row   *)
(* the sequence of its cells (Cell), short rows filled with NaN as         *)
(* read_excel does.  A record keeps the columns FECHA_OPERACION, SUCURSAL, *)
(* RECIBO, BULTOS, MONTO (IMPORTE in b4), MONEDA, ING_EGR,                 *)
(* MOTIVO_MOVIMIENTO and the index ridx of the row it was read from        *)
(***************************************************************************)
\* str(x) of a cell
CellStr(c) == IF c.kind = "str" THEN c.s ELSE IF c.kind = "nan" THEN "nan" ELSE Pad(c.n, 1)

\* clean_digits(val)
clean_digits(c) ==
    IF c.kind = "nan" THEN ""
    ELSE LET s == CellStr(c) IN ReplaceChars(s, {CharAt(s, i) : i \in 1..Len(s)} \ Digits, "")

\* normalize_divisa_to_iso(value) of a str
normalize_divisa_to_iso(value) ==
    LET \* s.replace(old, new)
        RECURSIVE Replace(_, _, _)
        Replace(s, old, new) ==
            IF Len(s) < Len(old) THEN s
            ELSE IF MatchAt(s, 1, old) THEN new \o Replace(Slice(s, Len(old) + 1, Len(s)), old, new)
            ELSE CharAt(s, 1) \o Replace(Slice(s, 2, Len(s)), old, new)
        u0 == remove_accents(upper(strip(value)))
        u == Replace(Replace(Replace(Replace(u0, "₲", "GS"), "US$", "USD"), "U$S", "USD"), "U$D", "USD")
        canon == ReplaceChars(u, {CharAt(u, i) : i \in 1..Len(u)} \ (UpperSet \cup Digits), "")
    IN  IF StartsWith(canon, "GUAR") \/ canon \in {"PYG", "PYGS", "GS", "GUARANI", "GUARANIES"} THEN "PYG"
        ELSE IF StartsWith(canon, "DOL") \/ Contains(canon, "USD") \/ canon \in {"US", "USS"} THEN "USD"
        ELSE ""

\* one pass of the row loop of an extractor over row ridx: st holds section,
\* motivo, started, the records so far (regs) and whether the loop was left
\* (stop); None of section and motivo is "".  ctx holds what was read from the
\* text of the whole sheet: agencia, and in b4 moneda and extra_cliente
StatementRow(parser, rows, ridx, st, ctx) ==
    LET b4 == parser = "parse_ec_efect_bco_xlsx"
        v4 == parser = "parse_ec_xlsx_generic"
        v == IF b4 THEN "b4" ELSE IF v4 THEN "v4" ELSE "v3"
        row == rows[ridx]
        n == Len(row)
        \* the cells that are neither NaN nor blank
        filled == {i \in 1..n : row[i].kind # "nan" /\ strip(CellStr(row[i])) # ""}
        \* the cells of row_text: v4 keeps NaN, which str turns into "nan"
        shown == IF v4 THEN {i \in 1..n : strip(CellStr(row[i])) # ""} ELSE filled
        Joined[i \in 0..n] == IF i = 0 THEN ""
                              ELSE IF i \notin shown THEN Joined[i - 1]
                              ELSE IF Joined[i - 1] = "" /\ \A j \in 1..(i - 1) : j \notin shown THEN CellStr(row[i])
                              ELSE Joined[i - 1] \o " " \o CellStr(row[i])
        txt == upper(IF b4 \/ v4 THEN Joined[n] ELSE strip(Joined[n]))
        First(S) == IF S = {} THEN 0 ELSE CHOOSE i \in S : \A j \in S : i <= j
        is_date(c) == to_ddmmyyyy(v, c) # ""
        has_date == \E i \in 1..n : is_date(row[i])
        only == First(filled)
        one_text == /\ Cardinality(filled) = 1
                    /\ IF b4 THEN ~is_date(row[only])
                       ELSE ~DATE_RE("v3", strip(CellStr(row[only])))
        iF == First({i \in 1..n : is_date(row[i])})
        iS == First({i \in (iF + 1)..n : strip(CellStr(row[i])) # ""})
        \* v4 takes the digits of str(x), which is "nan" for NaN as well
        iR == IF iS = 0 THEN 0 ELSE First({i \in (iS + 1)..n : Len(clean_digits(row[i])) >= 5})
        from == IF iR = 0 THEN n + 1 ELSE iR + 1
        pn(c) == IF c.kind = "nan" THEN None ELSE IF c.kind = "num" THEN Num(c.n, 0) ELSE parse_numeric(c.s)
        numAt == {i \in from..n : ~pn(row[i]).none}
        \* nums[k], 0.0 beyond the numbers found
        nums(k) == IF k > Cardinality(numAt) \/ k < 1 THEN Num(0, 0)
                   ELSE pn(row[CHOOSE i \in numAt : Cardinality({j \in numAt : j <= i}) = k])
        Scale(x, e) == x.m * (10 ^ (e - x.e))
        Leq(x, y) == Scale(x, Max(x.e, y.e)) <= Scale(y, Max(x.e, y.e))
        biggest == pn(row[CHOOSE i \in numAt : \A j \in numAt : Leq(pn(row[j]), pn(row[i]))])
        isos == {i \in from..n : row[i].kind = "str" /\ normalize_divisa_to_iso(row[i].s) \in {"PYG", "USD"}}
        \* int(x) when x is an integer, else None
        whole(x) == IF x.e = 0 THEN x ELSE None
        \* as_int(x) of v4: int(round(x)), halves to the even neighbour
        as_int(x) == LET q == x.m \div (10 ^ x.e)
                         r == x.m % (10 ^ x.e)
                     IN  Num(IF 2 * r < 10 ^ x.e \/ (2 * r = 10 ^ x.e /\ q % 2 = 0) THEN q ELSE q + 1, 0)
        count == Cardinality(numAt)
        rec(moneda, bultos, monto) ==
            [FECHA_OPERACION |-> to_ddmmyyyy(v, row[iF]),
             SUCURSAL |-> IF iS = 0 THEN "" ELSE strip(CellStr(row[iS])),
             RECIBO |-> IF iR = 0 THEN "" ELSE clean_digits(row[iR]),
             BULTOS |-> bultos, MONTO |-> monto, MONEDA |-> moneda,
             ING_EGR |-> IF st.section = "INGRESOS" THEN "IN" ELSE "OUT",
             MOTIVO_MOVIMIENTO |-> (IF st.motivo # "" THEN st.motivo ELSE st.section) \o ctx.extra_cliente,
             AGENCIA |-> ctx.agencia, ridx |-> ridx]
        has_gs == nums(1).m # 0 \/ nums(2).m # 0
        has_usd == nums(3).m # 0 \/ nums(4).m # 0
        emitted ==
            CASE parser = "parse_ec_efect_xlsx_generic" ->
                   <<rec(IF isos = {} THEN "PYG"
                         ELSE normalize_divisa_to_iso(row[CHOOSE i \in isos : \A j \in isos : j <= i].s),
                         IF count >= 2 THEN whole(nums(count - 1)) ELSE None,
                         nums(count))>>
              [] parser = "parse_ec_bultos_atm_xlsx" ->
                   (IF has_gs THEN <<rec("PYG", IF nums(1).m # 0 THEN whole(nums(1)) ELSE None, nums(2))>> ELSE <<>>)
                   \o (IF has_usd THEN <<rec("USD", IF nums(3).m # 0 THEN whole(nums(3)) ELSE None, nums(4))>> ELSE <<>>)
              [] v4 ->
                   <<rec("PYG", IF count >= 2 THEN as_int(nums(count - 1)) ELSE Num(0, 0), as_int(nums(count)))>>
              [] OTHER ->
                   IF numAt = {} THEN <<>>
                   ELSE <<rec(ctx.moneda, None, biggest)>>
        section(name) == [st EXCEPT !.section = name, !.motivo = "", !.started = name # ""]
    IN  IF st.stop THEN st
        ELSE IF b4 /\ Contains(txt, "INFORME DE PROCESOS") THEN [st EXCEPT !.stop = TRUE]
        ELSE IF ~b4 /\ Contains(txt, "SALDO ANTERIOR") THEN section("")
        ELSE IF Contains(txt, "INGRESOS") /\ ~Contains(txt, "EGRESOS") THEN section("INGRESOS")
        ELSE IF Contains(txt, "EGRESOS") THEN section("EGRESOS")
        ELSE IF ~b4 /\ ~v4 /\ (Contains(txt, "INFORME DE PROCESOS") \/ Contains(txt, "INFORME DE ERRORES"))
             THEN [st EXCEPT !.stop = TRUE]
        ELSE IF st.section = "" \/ (~b4 /\ ~st.started) THEN st
        ELSE IF b4 /\ (StartsWith(txt, "TOTAL") \/ StartsWith(txt, "SUBTOTAL")) THEN [st EXCEPT !.motivo = ""]
        ELSE IF ~b4 /\ ~v4 /\ Contains(txt, "TOTAL") /\ ~has_date THEN [st EXCEPT !.motivo = ""]
        ELSE IF parser \in {"parse_ec_bultos_atm_xlsx", "parse_ec_efect_bco_xlsx"} /\ one_text
             THEN [st EXCEPT !.motivo = strip(CellStr(row[only]))]
        ELSE IF iF = 0 \/ (~v4 /\ iS = 0) \/ (~b4 /\ ~v4 /\ iR = 0) THEN st
        ELSE [st EXCEPT !.regs = @ \o emitted]

\* the records an extractor reads from a one-sheet workbook:
\* parse_ec_efect_xlsx_generic and parse_ec_bultos_atm_xlsx of v3,
\* parse_ec_xlsx_generic of v4, parse_ec_efect_bco_xlsx of b4
StatementRecords(parser, rows) ==
    LET b4 == parser = "parse_ec_efect_bco_xlsx"
        v4 == parser = "parse_ec_xlsx_generic"
        \* v3: the cells that are not blank (NaN is filled with ""), b4: every cell
        Shown(c) == b4 \/ (c.kind # "nan" /\ strip(CellStr(c)) # "")
        RECURSIVE JoinRow(_, _)
        JoinRow(row, i) ==
            IF i > Len(row) THEN ""
            ELSE IF ~Shown(row[i]) THEN JoinRow(row, i + 1)
            ELSE CellStr(row[i]) \o (IF \E j \in (i + 1)..Len(row) : Shown(row[j]) THEN " " ELSE "") \o JoinRow(row, i + 1)
        RECURSIVE JoinRows(_)
        JoinRows(i) ==
            IF i > Len(rows) THEN ""
            ELSE JoinRow(rows[i], 1) \o (IF i < Len(rows) THEN (IF b4 THEN " " ELSE "\n") ELSE "") \o JoinRows(i + 1)
        full_text == JoinRows(1)
        ctx == [agencia |-> IF v4 THEN normalize_agencia_to_cod("v4", parse_agencia_from_text("v4", full_text))
                            ELSE parse_agencia_from_text(IF b4 THEN "b4" ELSE "v3", full_text),
                moneda |-> IF Contains(upper(full_text), "MONEDA: DOLAR") THEN "USD" ELSE "PYG",
                extra_cliente |-> IF b4 /\ Contains(upper(full_text), "CLIENTE: DOCUMENTA /ITAU")
                                  THEN " (DOCUMENTA/ITAU)" ELSE ""]
        RECURSIVE Loop(_, _)
        Loop(ridx, st) == IF ridx > Len(rows) THEN st.regs
                          ELSE Loop(ridx + 1, StatementRow(parser, rows, ridx, st, ctx))
    IN  Loop(1, [section |-> "", motivo |-> "", started |-> FALSE, regs |-> <<>>, stop |-> FALSE])

(***************************************************************************)
(* The inventory extractors for PDF.  A document is the sequence of the    *)
(* texts of its pages.  A record keeps FECHA_INVENTARIO, DIVISA, AGENCIA,  *)
(* AGRUPACION_EFECTIVO, TIPO_VALOR, the six numeric tokens as found (nums; *)
(* v4 stores as_int of each) and the index of the line it was read from    *)
(***************************************************************************)
\* RE_NUM.findall(s), scanning from position i: \d{1,3}(?:\.\d{3})* in v3, with
\* (?:,\d{1,2})? in v4, between two \b in b4 (which removes the dots first)
RECURSIVE NumTokens(_, _, _)
NumTokens(v, s, i) ==
    LET IsD(k) == CharAt(s, k) \in Digits
        RECURSIVE Groups(_)
        Groups(e) == IF CharAt(s, e) = "." /\ IsD(e + 1) /\ IsD(e + 2) /\ IsD(e + 3) THEN Groups(e + 4) ELSE e
        run == IF IsD(i + 1) THEN (IF IsD(i + 2) THEN 3 ELSE 2) ELSE 1
        e1 == Groups(i + run)
        e2 == IF v = "v4" /\ CharAt(s, e1) = "," /\ IsD(e1 + 1) THEN (IF IsD(e1 + 2) THEN e1 + 3 ELSE e1 + 2) ELSE e1
    IN  IF i > Len(s) THEN <<>>
        ELSE IF ~IsD(i) THEN NumTokens(v, s, i + 1)
        ELSE IF v # "b4" THEN <<Slice(s, i, e2 - 1)>> \o NumTokens(v, s, e2)
        ELSE IF WordB(s, i) /\ WordB(s, e1) THEN <<Slice(s, i, e1 - 1)>> \o NumTokens(v, s, e1)
        ELSE NumTokens(v, s, i + 1)

\* one pass of the line loop over the stripped line linea, the idx-th of the
\* text: st holds agrupacion, tipo_valor, divisa and the records so far (datos),
\* ctx what was read from the whole text (fecha_inventario, agencia,
\* cliente_documenta); None is ""
InventoryLine(v, linea, idx, st, ctx) ==
    LET u == upper(linea)
        WordAt(i, lit) == MatchAt(u, i, lit) /\ WordB(u, i) /\ WordB(u, i + Len(lit))
        \* RE_IGNORAR.search(u)
        ignorar == \E i \in 1..Len(u) :
                     \E lit \in {"TOTAL", "SUBTOTAL", "SUB-TOTAL", "SUB TOTAL", "SUB\tTOTAL"} : WordAt(i, lit)
        \* ^\s*(TESORO|TESOSO|PICOS|FAJOS)\b.*\b(ATM|BANCO)\b
        is_agrup == \E w \in (IF v = "v3" THEN {"TESORO", "TESOSO", "PICOS", "FAJOS"} ELSE {"TESORO", "PICOS", "FAJOS"}) :
                      /\ WordAt(1, w)
                      /\ \E j \in (Len(w) + 1)..Len(u) : WordAt(j, "ATM") \/ WordAt(j, "BANCO")
        \* ^(TESORO|PICOS|FAJOS)\s+EFECTIVO: the position after the match, 0 when none
        m_agrup == Max(Max(WsSeqEnd(u, 1, <<"TESORO", "EFECTIVO">>), WsSeqEnd(u, 1, <<"PICOS", "EFECTIVO">>)),
                       WsSeqEnd(u, 1, <<"FAJOS", "EFECTIVO">>))
        is_tipo == \E w \in {"BILLETES", "MONEDAS"} : IF v = "b4" THEN StartsWith(u, w) ELSE WordAt(1, w)
        st1 == IF is_agrup
               THEN [st EXCEPT !.agrupacion = linea,
                               !.divisa = IF v # "v3" THEN @
                                          ELSE IF Contains(u, "USD") \/ (Contains(u, "MDA") /\ Contains(u, "EXT"))
                                               THEN "USD" ELSE "PYG"]
               ELSE st
        st2 == IF is_tipo THEN [st1 EXCEPT !.tipo_valor = linea] ELSE st1
        nums == NumTokens(v, IF v = "b4" THEN ReplaceChars(linea, {"."}, "") ELSE u, 1)
        rec(s) == [FECHA_INVENTARIO |-> ctx.fecha_inventario, DIVISA |-> s.divisa, AGENCIA |-> ctx.agencia,
                   AGRUPACION_EFECTIVO |-> s.agrupacion, TIPO_VALOR |-> s.tipo_valor, nums |-> nums, idx |-> idx]
    IN  IF v = "b4"
        THEN IF Contains(u, "TOTAL") THEN st
             ELSE IF m_agrup # 0
                  THEN [st EXCEPT !.agrupacion = Slice(linea, 1, m_agrup - 1)
                                                     \o (IF ctx.cliente_documenta THEN " (DOCUMENTA/ITAU)" ELSE "")]
             ELSE IF is_tipo THEN [st EXCEPT !.tipo_valor = linea]
             ELSE IF Len(nums) = 6 /\ st.agrupacion # "" /\ st.tipo_valor # ""
                  THEN [st EXCEPT !.datos = Append(@, rec(st))]
             ELSE st
        ELSE IF ignorar THEN st
             ELSE IF Len(nums) = 6 /\ ctx.fecha_inventario # "" /\ st2.agrupacion # "" /\ st2.tipo_valor # ""
                  THEN [st2 EXCEPT !.datos = Append(@, rec(st2))]
             ELSE st2

\* the records an extractor reads from a PDF: parse_inv_billetes_pdf_common of
\* v3, parse_inv_pdf_common of v4, parse_inv_billetes_pdf of b4
InventoryRecords(v, pages) ==
    LET RECURSIVE JoinPages(_)
        JoinPages(i) == IF i > Len(pages) THEN ""
                        ELSE pages[i] \o (IF v = "b4" THEN "" ELSE "\n") \o JoinPages(i + 1)
        texto == unir_letras_separadas(JoinPages(1))
        u == upper(texto)
        First(S) == IF S = {} THEN 0 ELSE CHOOSE i \in S : \A j \in S : i <= j
        IsD(k) == CharAt(texto, k) \in Digits
        \* \d{2}[-/]\d{2}[-/]\d{4} at q with a day of a and a month of b digits: the
        \* position after it, 0 when there is none
        DateEnd(q, a, b, seps) ==
            IF /\ \A k \in q..(q + a - 1) : IsD(k)
               /\ CharAt(texto, q + a) \in seps
               /\ \A k \in (q + a + 1)..(q + a + b) : IsD(k)
               /\ CharAt(texto, q + a + b + 1) \in seps
               /\ \A k \in (q + a + b + 2)..(q + a + b + 5) : IsD(k)
            THEN q + a + b + 6 ELSE 0
        DateAt(q) ==
            IF v = "b4" THEN Slice(texto, q, DateEnd(q, 2, 2, {"-"}) - 1)
            ELSE IF v = "v3" THEN Slice(texto, q, DateEnd(q, 2, 2, {"-", "/"}) - 1)
            ELSE Slice(texto, q, Max(Max(DateEnd(q, 2, 2, {"-", "/"}), DateEnd(q, 2, 1, {"-", "/"})),
                                     Max(DateEnd(q, 1, 2, {"-", "/"}), DateEnd(q, 1, 1, {"-", "/"}))) - 1)
        \* the end of the heading matched at i, 0 when it does not match
        HeadEnd(i) ==
            IF v = "b4" THEN (IF MatchAt(u, i, "SALDO DE INVENTARIO DE BILLETES AL") THEN i + 34 ELSE 0)
            ELSE Max(WsSeqEnd(u, i, <<"PLANILLA", "DE", "INVENTARIO", "DE", "BILLETES">>),
                     WsSeqEnd(u, i, <<"SALDO", "DE", "INVENTARIO", "DE", "BILLETES">>))
        \* the colons that end  .*?:  after the heading at i and are followed by a date
        ColonsFrom(h) == {c \in h..Len(texto) :
                            /\ CharAt(texto, c) = ":"
                            /\ IF v = "b4" THEN c = h ELSE \A k \in h..(c - 1) : CharAt(texto, k) # "\n"
                            /\ DateAt(SkipSpaces(texto, c + 1)) # ""}
        Colons(i) == IF HeadEnd(i) = 0 THEN {} ELSE ColonsFrom(HeadEnd(i))
        m_fecha == First({i \in 1..Len(texto) : Colons(i) # {}})
        group == IF m_fecha = 0 THEN "" ELSE DateAt(SkipSpaces(texto, First(Colons(m_fecha)) + 1))
        fecha_inventario == IF v = "v3" THEN group
                            ELSE IF v = "b4" THEN ReplaceChars(group, {"-"}, "/")
                            ELSE IF group = "" THEN "" ELSE to_ddmmyyyy("v4", Cell("str", group, 0))
        \* group 1 of  SUC:\s*(.+)  (b4)
        sucs == {i \in 1..Len(u) : MatchAt(u, i, "SUC:") /\ SkipSpaces(texto, i + 4) <= Len(texto)}
        line_end(c) == First({k \in c..(Len(texto) + 1) : k > Len(texto) \/ CharAt(texto, k) = "\n"})
        agencia_raw == IF v = "b4"
                       THEN (IF sucs = {} THEN ""
                             ELSE LET c == SkipSpaces(texto, First(sucs) + 4) IN strip(Slice(texto, c, line_end(c) - 1)))
                       ELSE strip(SucGroupClass(texto))
        cod == normalize_agencia_to_cod(v, agencia_raw)
        agencia == IF cod # "" THEN cod ELSE IF v = "v4" THEN "" ELSE agencia_raw
        \* \bMDA\.?\s*EXT  (v4 without the \b)
        mda == \E i \in 1..Len(u) :
                 /\ MatchAt(u, i, "MDA") /\ (v = "v3" => WordB(u, i))
                 /\ MatchAt(u, SkipSpaces(u, IF CharAt(u, i + 3) = "." THEN i + 4 ELSE i + 3), "EXT")
        divisa == IF v = "b4" THEN (IF Contains(u, "DOLAR") THEN "USD" ELSE "PYG")
                  ELSE IF SearchWordStart(u, "USD") \/ mda THEN "USD" ELSE "PYG"
        ctx == [fecha_inventario |-> fecha_inventario, agencia |-> agencia,
                cliente_documenta |-> Contains(u, "DOCUMENTA /ITAU")]
        lineas == Split(texto, "\n")
        RECURSIVE Loop(_, _)
        Loop(i, st) == IF i > Len(lineas) THEN st.datos
                       ELSE IF strip(lineas[i]) = "" THEN Loop(i + 1, st)
                       ELSE Loop(i + 1, InventoryLine(v, strip(lineas[i]), i, st, ctx))
    IN  Loop(1, [agrupacion |-> "", tipo_valor |-> "", divisa |-> divisa, datos |-> <<>>])

(***************************************************************************)
(* One extraction: an extractor applied to one workbook or one PDF, then   *)
(* the AGENCIA column as process_file leaves it before the records are     *)
(* appended to the output file                                             *)
(***************************************************************************)
MaxBlocks == 3

\* process_file: the AGENCIA of a record that is appended, from the one the
\* extractor gave (v3, v4: normalised or else kept, blanks filled with the
\* agency of the file; b4: as the extractor gave it)
AppendedAgencia(v, x, agencia_norm) ==
    LET cod == normalize_agencia_to_cod(v, x)
        y == IF cod # "" THEN cod ELSE x
    IN  IF v = "b4" THEN x
        ELSE IF agencia_norm # "" /\ strip(y) = "" THEN agencia_norm
        ELSE y

\* a statement sheet: two movements under a heading, a reason row before the
\* second, a closing row; every cell is text
StatementSheet(title, heading, first, second, motivo, closing) ==
    LET nan == Cell("nan", "", 0)
        text(s) == Cell("str", s, 0)
        only(s) == <<text(s), nan, nan, nan>>
    IN  (IF title = "" THEN <<>> ELSE <<only(title)>>)
        \o <<only(heading),
             <<text("01/01/2024"), text("ASU"), text("123456"), text(first)>>,
             only(motivo),
             <<text("02/01/2024"), text("ASU"), text("654321"), text(second)>>,
             only(closing)>>

\* an inventory PDF of one page: the heading with the date and the branch, then
\* blocks grouping blocks of two value-type lines, each with one data line of
\* six numeric tokens (on the value-type line itself when inline), and a
\* totals line
InventoryPdf(suc, blocks, inline, grouped) ==
    LET billetes == IF grouped THEN "100.000 10 0 0 0 1.000.000" ELSE "100 10 0 0 0 1"
        monedas == IF grouped THEN "1.000 5 0 0 0 5.000" ELSE "500 5 0 0 0 2"
        sep == IF inline THEN " " ELSE "\n"
        Block(k) == <<"TESORO", "PICOS", "FAJOS", "TESORO">>[k] \o " EFECTIVO BANCO\n"
                    \o "BILLETES" \o sep \o billetes \o "\nMONEDAS" \o sep \o monedas \o "\nTOTAL 1 2 3 4 5 6\n"
        RECURSIVE Blocks(_)
        Blocks(k) == IF k > blocks THEN "" ELSE Block(k) \o Blocks(k + 1)
    IN  <<"SALDO DE INVENTARIO DE BILLETES AL: 01-02-2024\nCLIENTE: ITAU (SUC: " \o suc \o ")\n" \o Blocks(1)>>

\* the workbooks an extraction is given
Sheets ==
    {StatementSheet(title, heading, amounts[1], amounts[2], motivo, closing) :
        title \in {"", "ESTADO DE CUENTA (SUC: ASUNCION)", "ESTADO DE CUENTA (SUC: LUQUE)"},
        heading \in {"INGRESOS", "EGRESOS"},
        amounts \in {<<"1.000.000", "2.000.000">>, <<"1.000.000,00", "2.000.000,00">>, <<"1000000", "USD 2,5">>},
        motivo \in {"MOTIVO X", "DEPOSITO"}, closing \in {"TOTAL", "TOTAL INGRESOS"}}

\* the PDFs an extraction is given, each with the number of its data lines
Pdfs ==
    {[data_lines |-> 2 * blocks, doc |-> InventoryPdf(suc, blocks, inline, grouped)] :
        suc \in {"CDE", "ASUNCION", "LUQUE"}, blocks \in 1..MaxBlocks, inline \in BOOLEAN, grouped \in BOOLEAN}

InitExtract ==
    /\ variant \in Variants
    /\ IdleRun
    /\ \E agencia_norm \in {"", "CDE"} :
         \/ \E parser \in (IF variant = "v3" THEN {"parse_ec_efect_xlsx_generic", "parse_ec_bultos_atm_xlsx"}
                           ELSE IF variant = "b4" THEN {"parse_ec_efect_bco_xlsx"} ELSE {}),
                sheet \in Sheets :
                call = [fn |-> "parse_ec", done |-> FALSE, out |-> <<>>, df |-> <<>>,
                        arg |-> [parser |-> parser, agencia_norm |-> agencia_norm, data_lines |-> 2, doc |-> sheet]]
         \/ \E pdf \in Pdfs :
                call = [fn |-> "parse_inv", done |-> FALSE, out |-> <<>>, df |-> <<>>,
                        arg |-> [parser |-> IF variant = "v3" THEN "parse_inv_billetes_pdf_common"
                                            ELSE IF variant = "v4" THEN "parse_inv_pdf_common"
                                            ELSE "parse_inv_billetes_pdf",
                                 agencia_norm |-> agencia_norm, data_lines |-> pdf.data_lines, doc |-> pdf.doc]]

\* the extractor fn gave out: the records are kept as they were read (out) and as
\* they are appended (df)
Extracted(fn, out) ==
    /\ call.fn = fn /\ ~call.done
    /\ call' = [call EXCEPT !.done = TRUE, !.out = out,
                            !.df = [k \in 1..Len(out) |->
                                      [out[k] EXCEPT !.AGENCIA = AppendedAgencia(variant, @, call.arg.agencia_norm)]]]
    /\ UNCHANGED runVars

\* a statement extractor is applied to the workbook of the call (the records
\* of each parser on each workbook are worked out once, as the extractor is a
\* function of the workbook alone)
ExtractStatement ==
    \E e \in {<<parser, sheet, StatementRecords(parser, sheet)>> :
                parser \in {"parse_ec_efect_xlsx_generic", "parse_ec_bultos_atm_xlsx", "parse_ec_efect_bco_xlsx"},
                sheet \in Sheets} :
        /\ call.arg.parser = e[1] /\ call.arg.doc = e[2]
        /\ Extracted("parse_ec", e[3])

\* the inventory extractor of the generation is applied to the PDF of the call
ExtractInventory ==
    \E e \in {<<v, pdf.doc, InventoryRecords(v, pdf.doc)>> : v \in Variants, pdf \in Pdfs} :
        /\ variant = e[1] /\ call.arg.doc = e[2]
        /\ Extracted("parse_inv", e[3])

SpecExtract == InitExtract /\ [][ExtractStatement \/ ExtractInventory]_vars

(***************************************************************************)
(* The row loop of a statement extractor, one row at a time: the sheet is  *)
(* read row by row, call.doc holds the rows read so far and call.st the    *)
(* state of the loop after them                                            *)
(***************************************************************************)
MaxRows == 4

\* the rows a sheet is made of: headings, closing rows, a reason row, and
\* movements (date, branch, receipt, then the numbers); every row has the
\* width of the sheet, the cells that are not filled are NaN
ScanRows ==
    LET Row(cells) == [i \in 1..8 |-> IF i > Len(cells) \/ cells[i] = "" THEN Cell("nan", "", 0)
                                      ELSE Cell("str", cells[i], 0)]
    IN  {Row(c) : c \in {<<"INGRESOS">>, <<"EGRESOS">>, <<"SALDO ANTERIOR">>, <<"TOTAL">>,
                         <<"INFORME DE PROCESOS">>, <<"INFORME DE ERRORES">>, <<"MOTIVO X">>,
                         <<"01/01/2024", "ASU", "123456", "2", "1000", "0", "0">>,
                         <<"02/01/2024", "", "ASU", "654321", "0", "0", "1", "100">>,
                         <<"03/01/2024", "ASU", "123456", "2", "1000", "1", "100">>,
                         <<"04/01/2024", "ASU", "123456", "0", "0", "0", "0">>,
                         <<"05/01/2024", "ASU", "123456", "5000", "3">>,
                         <<"x", "ASU", "123456", "10">>,
                         <<"", "", "", "", "", "", "", "06/01/2024">>}}
       \cup {[i \in 1..8 |-> IF i = 1 THEN Cell("str", "07/01/2024", 0) ELSE IF i = 2 THEN Cell("str", "ASU", 0)
                             ELSE IF i = 3 THEN Cell("str", "123456", 0) ELSE IF i = 4 THEN Cell("num", "", 7)
                             ELSE IF i = 5 THEN Cell("num", "", 2500) ELSE Cell("nan", "", 0)]}

InitScan ==
    /\ variant \in Variants
    /\ IdleRun
    /\ \E parser \in (IF variant = "v3" THEN {"parse_ec_efect_xlsx_generic", "parse_ec_bultos_atm_xlsx"}
                      ELSE IF variant = "v4" THEN {"parse_ec_xlsx_generic"} ELSE {"parse_ec_efect_bco_xlsx"}) :
         call = [fn |-> "scan", parser |-> parser, doc |-> <<>>,
                 st |-> [section |-> "", motivo |-> "", started |-> FALSE, regs |-> <<>>, stop |-> FALSE]]

\* one pass of the row loop over the next row of the sheet.  A pass depends on
\* the parser, the row and section, motivo and started only, so the passes
\* are worked out once for each of them (e[3]: the row and the state it leads
\* to); the rows of ScanRows hold no branch, currency or client heading, which
\* gives the ctx of the sheet
ScanRow ==
    \E e \in {<<parser, s, {<<row, StatementRow(parser, <<row>>, 1, s, [agencia |-> "", moneda |-> "PYG", extra_cliente |-> ""])>> :
                              row \in ScanRows}>> :
                parser \in {"parse_ec_efect_xlsx_generic", "parse_ec_bultos_atm_xlsx", "parse_ec_xlsx_generic",
                            "parse_ec_efect_bco_xlsx"},
                s \in {[section |-> section, motivo |-> motivo, started |-> section # "", regs |-> <<>>, stop |-> FALSE] :
                          section \in {"", "INGRESOS", "EGRESOS"},
                          motivo \in {""} \cup {strip(CellStr(row[1])) : row \in ScanRows}}} :
        /\ call.fn = "scan" /\ Len(call.doc) < MaxRows /\ ~call.st.stop
        /\ call.parser = e[1] /\ [call.st EXCEPT !.regs = <<>>] = e[2]
        /\ \E f \in e[3] :
             call' = [call EXCEPT !.doc = Append(@, f[1]),
                                  !.st = [f[2] EXCEPT !.regs = call.st.regs
                                            \o [k \in 1..Len(f[2].regs) |-> [f[2].regs[k] EXCEPT !.ridx = Len(call.doc) + 1]]]]
        /\ UNCHANGED runVars

SpecScan == InitScan /\ [][ScanRow]_vars

(***************************************************************************)
(* The spreadsheet inventory extractors: parse_inv_billetes_xlsx_atm of v3 *)
(* and parse_inv_xlsx_generic of v4 (b4 has none).  A record holds DIVISA, *)
(* AGRUPACION_EFECTIVO, TIPO_VALOR, DENOMINACION, the four counts and      *)
(* IMPORTE_TOTAL, with the date and agency read from the head of the sheet *)
(* and the index ridx of the row it was read from                          *)
(***************************************************************************)
MaxInvRows == 3

MaxLines == 4

\* collapse_spaced_letters(s): the tokens of s.split() joined when each of them
\* is one character
collapse_spaced_letters(s) ==
    LET joined == ReplaceChars(s, {" ", "\t", "\n", "\r"}, "")
    IN  IF joined # "" /\ \A i \in 1..(Len(s) - 1) : IsSpace(CharAt(s, i)) \/ IsSpace(CharAt(s, i + 1))
        THEN joined ELSE s

\* the body of the row loop for one row of nine cells: the records it appends
\* (none or one); ctx holds fecha_inv and agencia
InventoryRow(v, row, ridx, ctx) ==
    LET pn(c) == IF c.kind = "nan" THEN None ELSE IF c.kind = "num" THEN Num(c.n, 0) ELSE parse_numeric(c.s)
        \* int(round(x)), halves to the even neighbour
        rounded(x) == LET q == x.m \div (10 ^ x.e)
                          r == x.m % (10 ^ x.e)
                      IN  Num(IF 2 * r < 10 ^ x.e \/ (2 * r = 10 ^ x.e /\ q % 2 = 0) THEN q ELSE q + 1, 0)
        \* i_or_zero(x) of v3, as_int(x) of v4
        i_or_zero(c) == IF pn(c).none THEN Num(0, 0) ELSE rounded(pn(c))
        RECURSIVE NoDots(_)
        NoDots(t) == IF t # "" /\ CharAt(t, Len(t)) = "." THEN NoDots(Slice(t, 1, Len(t) - 1)) ELSE t
        iso_div == normalize_divisa_to_iso(CellStr(row[1]))
        agrup == IF v = "v3" THEN NoDots(strip(CellStr(row[2]))) ELSE strip(CellStr(row[2]))
        tipo == IF v = "v3" THEN collapse_spaced_letters(strip(CellStr(row[3]))) ELSE strip(CellStr(row[3]))
        denom == pn(row[4])
        imp == pn(row[9])
    IN  IF iso_div \notin {"PYG", "USD"} THEN <<>>
        ELSE IF denom.none THEN <<>>
        ELSE IF v = "v3" /\ imp.none THEN <<>>
        ELSE <<[FECHA_INVENTARIO |-> ctx.fecha_inv, DIVISA |-> iso_div, AGENCIA |-> ctx.agencia,
                AGRUPACION_EFECTIVO |-> agrup, TIPO_VALOR |-> tipo, DENOMINACION |-> rounded(denom),
                CALIDAD_DEPOSITO |-> i_or_zero(row[5]), CJE_DEP |-> i_or_zero(row[6]),
                CALIDAD_CANJE |-> i_or_zero(row[7]), MONEDA |-> i_or_zero(row[8]),
                IMPORTE_TOTAL |-> IF v = "v3" THEN imp ELSE i_or_zero(row[9]), ridx |-> ridx]>>

\* the rows an inventory sheet is made of: nine cells each, the cells that are
\* not filled are NaN; the last two hold numbers, not text
InventoryRows ==
    LET Row(cells) == [i \in 1..9 |-> IF i > Len(cells) \/ cells[i] = "" THEN Cell("nan", "", 0)
                                      ELSE Cell("str", cells[i], 0)]
    IN  {Row(c) : c \in {<<"DIVISA", "AGRUPACION", "TIPO", "DENOMINACION", "DEP", "CJE", "CANJE", "MONEDA", "IMPORTE">>,
                         <<"GS", "TESORO ATM.", "B I L L E T E S", "100.000", "5", "0", "0", "5", "500.000">>,
                         <<"USD", "TESORO", "BILLETES", "100", "", "x", "", "", "1.000">>,
                         <<"GS", "PICOS", "BILLETES", "50.000", "2", "0", "0", "2">>,
                         <<"GS", "PICOS", "BILLETES", "20.000", "2,5", "3,5", "0", "6", "N/D">>,
                         <<"GS", "FAJOS", "MONEDAS", "x", "1", "1", "1", "1", "1">>,
                         <<"TOTAL", "", "", "", "", "", "", "", "500.000">>,
                         <<>>}}
       \cup {[i \in 1..9 |-> IF i = 1 THEN Cell("str", "USD", 0) ELSE IF i = 2 THEN Cell("str", "PICOS", 0)
                             ELSE IF i = 3 THEN Cell("str", "MONEDAS", 0) ELSE IF i = 4 THEN Cell("num", "", 50)
                             ELSE IF i = 5 THEN Cell("num", "", 3) ELSE IF i = 9 THEN Cell("num", "", 150)
                             ELSE Cell("nan", "", 0)],
             [i \in 1..9 |-> IF i = 1 THEN Cell("str", "GS", 0) ELSE IF i = 4 THEN Cell("num", "", 2000)
                             ELSE IF i = 8 THEN Cell("num", "", 4) ELSE Cell("nan", "", 0)]}

\* either the row loop of a sheet, or the line loop of a PDF text: the text is
\* empty or holds its heading, from which fecha_inventario was read before the
\* loop (v3 keeps the date as written, v4 passes it through to_ddmmyyyy, b4
\* reads a date written with "-" only and writes it with "/"; None is "")
InitInventory ==
    /\ variant \in Variants
    /\ IdleRun
    /\ \/ /\ variant \in {"v3", "v4"}
          /\ call = [fn |-> "scan_inv", doc |-> <<>>, registros |-> <<>>]
       \/ \E fecha \in {"", "01-02-2024", "01/02/2024"} :
            call = [fn |-> "scan_pdf",
                    doc |-> IF fecha = "" THEN <<>> ELSE <<"SALDO DE INVENTARIO DE BILLETES AL: " \o fecha>>,
                    ctx |-> [fecha_inventario |-> IF fecha = "" THEN ""
                                                  ELSE IF variant = "v3" THEN fecha
                                                  ELSE IF variant = "v4" THEN to_ddmmyyyy("v4", Cell("str", fecha, 0))
                                                  ELSE IF Contains(fecha, "/") THEN ""
                                                  ELSE ReplaceChars(fecha, {"-"}, "/"),
                             agencia |-> "", cliente_documenta |-> FALSE],
                    st |-> [agrupacion |-> "", tipo_valor |-> "", divisa |-> "PYG", datos |-> <<>>]]

\* one pass of the row loop over the next row of the sheet; the rows of
\* InventoryRows hold no branch heading, the date of the sheet is 01/01/2024
ScanInventoryRow ==
    \E e \in {<<v, row, InventoryRow(v, row, 0, [fecha_inv |-> "01/01/2024", agencia |-> ""])>> :
                v \in {"v3", "v4"}, row \in InventoryRows} :
        /\ call.fn = "scan_inv" /\ Len(call.doc) < MaxInvRows
        /\ variant = e[1]
        /\ call' = [call EXCEPT !.doc = Append(@, e[2]),
                                !.registros = @ \o [k \in 1..Len(e[3]) |-> [e[3][k] EXCEPT !.ridx = Len(call.doc) + 1]]]
        /\ UNCHANGED runVars

\* one pass of the line loop of a PDF extractor over the next line of the text
\* (stripped, not blank).  A pass depends on the extractor, the line, ctx and
\* agrupacion, tipo_valor and divisa only, so the passes are worked out once
\* for each of them (e[4]: the line and the state it leads to)
ScanInventoryLine ==
    \E e \in {<<v, ctx, s, {<<linea, InventoryLine(v, linea, 0, s, ctx)>> :
                               linea \in {"TESORO EFECTIVO BANCO", "BILLETES", "MONEDAS", "100 10 0 0 0 1",
                                          "100 10 0 0 0", "1 2 3 4 5 6 7", "100.000 10 0 0 0 1.000.000",
                                          "BILLETES 100 10 0 0 0 1", "TOTAL 1 2 3 4 5 6", "SUB-TOTAL 1 2 3 4 5 6"}}>> :
                v \in Variants,
                ctx \in {[fecha_inventario |-> fecha, agencia |-> "", cliente_documenta |-> FALSE] :
                            fecha \in {"", "01-02-2024", "01/02/2024"}},
                s \in {[agrupacion |-> agrupacion, tipo_valor |-> tipo_valor, divisa |-> "PYG", datos |-> <<>>] :
                          agrupacion \in {"", "TESORO EFECTIVO BANCO", "TESORO EFECTIVO"},
                          tipo_valor \in {"", "BILLETES", "MONEDAS", "BILLETES 100 10 0 0 0 1"}}} :
        /\ call.fn = "scan_pdf" /\ Len(call.doc) < MaxLines
        /\ variant = e[1] /\ call.ctx = e[2] /\ [call.st EXCEPT !.datos = <<>>] = e[3]
        /\ \E f \in e[4] :
             call' = [call EXCEPT !.doc = Append(@, f[1]),
                                  !.st = [f[2] EXCEPT !.datos = call.st.datos
                                            \o [k \in 1..Len(f[2].datos) |-> [f[2].datos[k] EXCEPT !.idx = Len(call.doc) + 1]]]]
        /\ UNCHANGED runVars

SpecInventory == InitInventory /\ [][ScanInventoryRow \/ ScanInventoryLine]_vars

(***************************************************************************)
(* write_consolidated on its own: a process that has written nothing yet   *)
(* calls it a few times, with batches of any size (none included) and      *)
(* types of any kind; today's output files are absent, or left by an       *)
(* earlier run                                                             *)
(***************************************************************************)
MaxWrites == 3

InitWrite ==
    /\ variant \in Variants
    /\ pendientes = <<>> /\ procesado = {} /\ pend = <<>> /\ lost = {}
    /\ csv \in {[t \in OUTPUT_FILES |-> file] : file \in {<<>>, <<HeaderLine>> \o DataFrame(0, NoDoc, 1)}}
    /\ RUN_WRITTEN = {}
    /\ pc = "idle" /\ runs = 0 /\ now = 0 /\ deposited = 0
    /\ written = [t \in OUTPUT_FILES |-> <<>>]
    /\ last = NoLast /\ probe = NoProbe
    /\ call = [fn |-> "write_consolidated", n |-> 0, tipo |-> NoTipo, df |-> <<>>]

\* write_consolidated(tipo, df); call keeps the arguments of the latest call and
\* the number n of calls made
WriteConsolidated ==
    \E tipo \in OUTPUT_FILES \cup {NoTipo, "OTRO"}, size \in 0..2 :
        LET df == DataFrame(1, NoDoc, size)
        IN  /\ call.fn = "write_consolidated" /\ call.n < MaxWrites
            /\ csv' = IF tipo \in OUTPUT_FILES
                      THEN [csv EXCEPT ![tipo] = WriteFile(variant, tipo, df, @, RUN_WRITTEN)]
                      ELSE csv
            /\ RUN_WRITTEN' = WriteMark(variant, tipo, df, RUN_WRITTEN)
            /\ call' = [call EXCEPT !.n = @ + 1, !.tipo = tipo, !.df = df]
            /\ UNCHANGED <<variant, pendientes, procesado, pc, pend, runs, now, deposited, written, last, lost, probe>>

SpecWrite == InitWrite /\ [][WriteConsolidated]_vars

(***************************************************************************)
(* Properties                                                              *)
(***************************************************************************)
\* the lines of an output file that are header lines
HeaderCount(file) == Cardinality({i \in 1..Len(file) : file[i] = HeaderLine})

\* the rows file d of run r has in the output files
RowsOf(d, r) ==
    {<<t, i>> \in OUTPUT_FILES \X (1..(MaxFiles * MaxRuns * 3)) :
        i <= Len(csv[t]) /\ csv[t][i][1] = "ROW" /\ csv[t][i][2] = r /\ csv[t][i][3] = d.folder /\ csv[t][i][4] = PathName(d)}

\* base extended with the collision counter i
WithCounter(base, ext, i) == StemOf(base, ext) \o " (" \o CounterStr(i) \o ")" \o ext

\* name is base, or base extended with a collision counter
OriginalName(name, d) == name = PathName(d) \/ \E i \in 1..9 : name = WithCounter(PathName(d), d.ext, i)

\* one of the competing-institution names occurs in s
MentionsOthers(s) == \E b \in NEGATIVE_BANKS : Contains(upper(remove_accents(s)), b)

\* the type the decision order of the classifier gives a file name
DecisionOrderTipo(fname) ==
    LET up == upper(remove_accents(fname))
        In(tok) == Contains(up, tok)
        Statement == In("EC") \/ In("CTA") \/ In("ESTADO")
    IN  IF In("INV") /\ In("ATM") THEN "INV_BILLETES_ATM"
        ELSE IF In("INV") /\ (In("BANCO") \/ In("BCO") \/ In("DOLAR") \/ In("USD")) THEN "INV_BILLETES_BCO"
        ELSE IF Statement /\ In("EFECT") /\ In("ATM") THEN "EC_EFECT_ATM"
        ELSE IF Statement /\ In("EFECT") /\ (In("BCO") \/ In("BANCO")) THEN "EC_EFECT_BCO"
        ELSE IF Statement /\ In("BULTO") /\ In("ATM") THEN "EC_BULTO_ATM"
        ELSE IF In("INV") THEN "INV_BILLETES_UNKNOWN"
        ELSE NoTipo

\* the inventory token with a banknote marker and an ATM or bank marker
InventoryNamed(fname) ==
    LET up == upper(remove_accents(fname))
    IN  Contains(up, "INV") /\ Contains(up, "BILLETE") /\ (Contains(up, "ATM") \/ Contains(up, "BCO") \/ Contains(up, "BANCO"))

StatementNamed(fname) == DecisionOrderTipo(fname) \in {"EC_EFECT_ATM", "EC_EFECT_BCO", "EC_BULTO_ATM"}

\* C1: within a run, the output file of every type written to holds one header
\* line, its first line, followed by the rows of every batch passed to
\* write_consolidated in the run, in call order; since written only grows within
\* a run, no later write removes or reorders rows written earlier in the run
C1_OneHeaderThenBatches ==
    \A t \in RUN_WRITTEN : HeaderCount(csv[t]) = 1 /\ csv[t] = <<HeaderLine>> \o written[t]

\* C2: once a run has made its first non-empty write for a type, the file of the
\* type holds nothing of an earlier run: its first line is the header and every
\* other line is a row of the current run
C2_FirstWriteDropsEarlierRun ==
    \A t \in RUN_WRITTEN :
        /\ csv[t] # <<>>
        /\ csv[t][1] = HeaderLine
        /\ \A i \in 2..Len(csv[t]) : csv[t][i][1] = "ROW" /\ csv[t][i][2] = runs

\* C3: a file whose preview text or whose name holds a competing-institution
\* name is rejected by the gate, whatever else it holds
C3_GateRejectsCompetitors ==
    (probe.done /\ probe.doc # NoDoc) =>
        ((MentionsOthers(probe.doc.text) \/ MentionsOthers(PathName(probe.doc))) => ~probe.res.is_itau)

\* C4: without a competing-institution name in text or name and without a mention
\* of the target institution in the text, the gate accepts an inventory-named file
\* and rejects a statement-named file
C4_GateAsymmetry ==
    (/\ probe.done /\ probe.doc # NoDoc
     /\ ~MentionsOthers(probe.doc.text) /\ ~MentionsOthers(PathName(probe.doc))
     /\ ~Contains(upper(remove_accents(probe.doc.text)), "ITAU"))
    => /\ InventoryNamed(PathName(probe.doc)) => probe.res.is_itau
       /\ StatementNamed(PathName(probe.doc)) => ~probe.res.is_itau

\* C5: a file the gate rejects has no extractor run on it, has no row in any
\* output file, and lies in the archive under its original name
C5_RejectedFileArchivedUnmodified ==
    (last # NoLast /\ ~last.res.is_itau) =>
        /\ last.res.parser = NoParser
        /\ RowsOf(last.doc, last.run) = {}
        /\ \E f \in procesado : f.src = last.doc /\ f.run = last.run /\ OriginalName(f.name, last.doc)

\* C6: dispatch_tipo gives a file name the outcome of the first rule of the
\* decision order that matches it
C6_DispatchFirstMatch ==
    (probe.done /\ probe.doc # NoDoc) => probe.res.tipo0 = DecisionOrderTipo(PathName(probe.doc))

\* C7: of two gate-accepted files that differ in the preview text only, the types
\* differ only if the file is a PDF whose name classifies as InventoryUnknown or
\* Unknown, and then the type is InventoryBanknotesATM with an ATM marker in the
\* text and InventoryBanknotesBank without; spreadsheets of the same name get
\* the same type
C7_PreviewOnlyResolvesPdf ==
    (probe.done /\ probe.doc # NoDoc /\ probe.res.is_itau) =>
        LET byName == dispatch_tipo(variant, PathName(probe.doc), "")
            resolved == lower(probe.doc.ext) = ".pdf" /\ byName \in {"INV_BILLETES_UNKNOWN", NoTipo}
        IN  /\ (~resolved /\ probe.res2.is_itau) => probe.res.tipo = probe.res2.tipo
            /\ (resolved /\ ~probe.res.sinmov) =>
                   probe.res.tipo = IF Contains(upper(probe.doc.text), "ATM") THEN "INV_BILLETES_ATM" ELSE "INV_BILLETES_BCO"

\* C8: a gate-accepted file whose preview text holds the no-movements phrase
\* yields zero records, the gate flag true and an agency code, has no
\* extractor run on it, and has no row in any output file
C8_NoMovementsYieldsNoRecords ==
    (last # NoLast /\ last.res.is_itau /\ Contains(upper(last.doc.text), "SIN MOVIMIENTOS")) =>
        /\ last.res.n = 0
        /\ last.res.parser = NoParser
        /\ last.res.agencia \in AgencySet(variant)
        /\ RowsOf(last.doc, last.run) = {}

\* a status tag and a timestamp were appended to the name of d
Tagged(name, d) ==
    /\ name # PathName(d)
    /\ StartsWith(name, d.stem)
    /\ \E t \in 0..MaxClock : Contains(name, Timestamp(t))

\* C9: the archived name carries a status tag and a timestamp exactly when the
\* gate accepted the file, its type is one of the five types with an output
\* file and it produced zero records; otherwise it is the original name
C9_TagOnlyForEmptyRecognized ==
    last # NoLast =>
        IF last.res.is_itau /\ last.res.tipo \in OUTPUT_FILES /\ last.res.n = 0
        THEN Tagged(last.name, last.doc)
        ELSE OriginalName(last.name, last.doc)

\* C10: archiving overwrites nothing: every file archived before is still there,
\* and a file whose name is taken is stored under that name with the smallest
\* positive counter that is free
C10_ArchiveNeverOverwrites ==
    /\ lost = {}
    /\ last # NoLast =>
           LET taken == {f.name : f \in {g \in procesado : g.dir = last.dir /\ ~(g.src = last.doc /\ g.run = last.run)}}
               ext == last.doc.ext
           IN  IF last.base \notin taken THEN last.name = last.base
               ELSE \E i \in 1..9 : /\ last.name = WithCounter(last.base, ext, i)
                                    /\ last.name \notin taken
                                    /\ \A j \in 1..(i - 1) : WithCounter(last.base, ext, j) \in taken

\* the folder a file is archived in when no agency is known
FallbackFolder == "SIN_AGENCIA"

\* C11: every archived file lies in the folder of a known agency code or in the
\* fallback folder, never in a folder named by raw branch text of the document
C11_ArchivedUnderKnownAgency ==
    \A f \in procesado : f.dir \in AgencySet(variant) \cup {FallbackFolder}

\* C12: the iteration for a file whose extractor raises while parsing leaves the
\* file with zero records, writes nothing to any output file and starts no
\* output file, archives the file, and goes on with the rest of the scan, so
\* that the later files meet the state they would meet had the file held no
\* records
C12_ExtractorFailureIsolated ==
    [][(/\ pc = "running" /\ pend # <<>> /\ pend' # pend
        /\ Head(pend).fail = "parse" /\ last'.res.parser # NoParser)
       => /\ last'.res.n = 0
          /\ csv' = csv /\ RUN_WRITTEN' = RUN_WRITTEN
          /\ \E f \in procesado' : f.src = Head(pend) /\ f.run = runs
          /\ pend' = Tail(pend) /\ pc' = "running"]_vars

\* C13: when the move of a file to the archive fails, the file stays where it
\* was and the run goes on with the remaining files of the scan: the failure
\* does not end the run
C13_MoveFailureNotFatal ==
    [][(/\ pc = "running" /\ pend # <<>> /\ pend' # pend
        /\ Head(pend).fail = "move" /\ ~PreviewRaises(variant, Head(pend)))
       => /\ \E i \in 1..Len(pendientes') : pendientes'[i] = Head(pend)
          /\ procesado' = procesado
          /\ pend' = Tail(pend) /\ pc' = "running"]_vars

\* C14: file_text_preview never raises, and for a source that cannot be opened
\* or read, for a PDF without the PDF library and for a source with an
\* unsupported extension it returns the empty string
C14_PreviewFailsSoft ==
    (call.fn = "file_text_preview" /\ call.done) =>
        /\ ~call.out.raised
        /\ (\/ call.arg.src.fail # ""
            \/ call.arg.src.ext \notin {".xlsx", ".xls", ".pdf"}
            \/ call.arg.src.ext = ".pdf" /\ ~call.arg.pdflib) => call.out.text = ""

\* C15: a run that has started comes to its end, run() returning, with every
\* file its scan found moved out of the input tree: none of the files a scan
\* collects is left in PENDIENTES
C15_EveryScannedFileArchived ==
    (pc = "running") ~> (pc = "idle" /\ collect_pending_files(variant, pendientes) = <<>>)

\* digit groups separated by single commas, at least one comma
DigitGroups(s) ==
    /\ Contains(s, ",")
    /\ \A i \in 1..Len(s) : CharAt(s, i) \in Digits \cup {","}
    /\ CharAt(s, 1) # "," /\ CharAt(s, Len(s)) # "," /\ ~Contains(s, ",,")

CommaCount(s) == Cardinality({i \in 1..Len(s) : CharAt(s, i) = ","})

\* how many digits follow the last comma of s
AfterLastComma(s) == Len(s) - RFind(s, ",")

\* all digits of s, as one integer
AllDigits(s) == DigitsValue(ReplaceChars(s, {","}, ""))

\* s is x wrapped in parentheses
Wrapped(s) == Len(s) >= 2 /\ CharAt(s, 1) = "(" /\ CharAt(s, Len(s)) = ")"
Inside(s) == Slice(s, 2, Len(s) - 1)

\* the four amounts of the numeric normalisation
NumericExamples(val, out) ==
    /\ val = "1.234,56" => out = Num(123456, 2)
    /\ val = "(100)" => out = Num(0 - 100, 0)
    /\ val = "1,5" => out = Num(15, 1)
    /\ val = "1,500" => out = Num(1500, 0)

\* C18 as stated: the four amounts; digit groups separated by commas are read as
\* a decimal number (the last comma the decimal point) when at most two digits
\* follow the last comma and as the integer of all digits otherwise; a value
\* wrapped in parentheses is the negation of the value inside
C18_CommaRuleAnyCommas ==
    (call.fn = "parse_numeric" /\ call.done) =>
        /\ NumericExamples(call.arg, call.out)
        /\ DigitGroups(call.arg) =>
               call.out = Num(AllDigits(call.arg), IF AfterLastComma(call.arg) <= 2 THEN AfterLastComma(call.arg) ELSE 0)
        /\ (Wrapped(call.arg) /\ ~parse_numeric(Inside(call.arg)).none) =>
               call.out = Neg(parse_numeric(Inside(call.arg)))

\* C18, amended: the four amounts; digit groups with one comma are read as a
\* decimal number when at most two digits follow the comma; digit groups whose
\* last group has three or more digits are read as the integer of all digits;
\* with several commas and at most two digits after the last the result is
\* None; a value wrapped in parentheses that holds no parenthesis itself is the
\* negation of the value inside
C18_CommaRuleOneComma ==
    (call.fn = "parse_numeric" /\ call.done) =>
        /\ NumericExamples(call.arg, call.out)
        /\ DigitGroups(call.arg) =>
               call.out = IF AfterLastComma(call.arg) > 2 THEN Num(AllDigits(call.arg), 0)
                          ELSE IF CommaCount(call.arg) = 1 THEN Num(AllDigits(call.arg), AfterLastComma(call.arg))
                          ELSE None
        /\ (/\ Wrapped(call.arg)
            /\ ~Contains(Inside(call.arg), "(") /\ ~Contains(Inside(call.arg), ")")
            /\ ~parse_numeric(Inside(call.arg)).none) =>
               call.out = Neg(parse_numeric(Inside(call.arg)))

\* a comma amount with three digits after the comma was read as an integer
C18_Witness ==
    call.fn = "parse_numeric" /\ call.done /\ call.arg = "1,500" /\ call.out = Num(1500, 0)

\* s has the shape dd/mm/yyyy
DateShape(s) ==
    /\ Len(s) = 10
    /\ \A i \in 1..10 : IF i \in {3, 6} THEN CharAt(s, i) = "/" ELSE CharAt(s, i) \in Digits

\* C19: to_ddmmyyyy maps every accepted representation of the same date (Excel
\* serial, datetime, the texts yyyy-mm-dd, dd-mm-yyyy, dd/mm/yy, dd/mm/yyyy)
\* to one identical string, and every non-null result has the shape
\* dd/mm/yyyy
C19_OneStringPerDate ==
    (call.fn = "to_ddmmyyyy" /\ call.done) =>
        /\ \A k \in 1..2 : call.out[k] \notin {"", "OverflowError"} => DateShape(call.out[k])
        /\ (/\ call.arg[2] \in Representations(call.arg[1])
            /\ call.arg[3] \in Representations(call.arg[1])
            /\ call.out[1] \notin {"", "OverflowError"}
            /\ call.out[2] \notin {"", "OverflowError"})
           => call.out[1] = call.out[2]

\* the sheet of the example: INGRESOS, a movement, MOTIVO X, a movement, TOTAL
ExampleSheet == StatementSheet("", "INGRESOS", "1.000.000", "2.000.000", "MOTIVO X", "TOTAL")

\* C16: from the sheet with the rows INGRESOS / 01/01/2024 ASU 123456
\* 1.000.000 / MOTIVO X / 02/01/2024 ASU 654321 2.000.000 / TOTAL, all cells
\* text, the statement extractor emits exactly two records, in row order, and
\* the second carries the reason label MOTIVO X
C16_TwoRecordsSecondWithReason ==
    (call.fn = "parse_ec" /\ call.done /\ call.arg.doc = ExampleSheet) =>
        /\ Len(call.out) = 2
        /\ call.out[1].ridx = 2 /\ call.out[1].RECIBO = "123456"
        /\ call.out[2].ridx = 4 /\ call.out[2].RECIBO = "654321"
        /\ call.out[2].MOTIVO_MOVIMIENTO = "MOTIVO X"

\* C17: from a genuine inventory PDF the extractor emits exactly one record per
\* data line of six numeric tokens (six records for three grouping blocks of
\* two value-type lines), all with the same inventory date and agency code
C17_OneRecordPerDataLine ==
    (call.fn = "parse_inv" /\ call.done) =>
        /\ Len(call.out) = call.arg.data_lines
        /\ \A j, k \in 1..Len(call.out) :
             /\ call.out[j].FECHA_INVENTARIO = call.out[k].FECHA_INVENTARIO
             /\ call.out[j].AGENCIA = call.out[k].AGENCIA
             /\ j < k => call.out[j].idx < call.out[k].idx

\* C20: every record appended has a currency in {PYG, USD, empty} and an agency
\* that is a known code or the empty marker: unrecognised raw branch text after
\* "SUC:" is never stored as the agency
C20_RecordsNormalised ==
    (call.fn \in {"parse_ec", "parse_inv"} /\ call.done) =>
        \A k \in 1..Len(call.df) :
            /\ (IF call.fn = "parse_ec" THEN call.df[k].MONEDA ELSE call.df[k].DIVISA) \in {"PYG", "USD", ""}
            /\ call.df[k].AGENCIA \in AgencySet(variant) \cup {""}

(***************************************************************************)
(* The rows of a statement sheet, as the description of the row loop       *)
(* reads them                                                              *)
(***************************************************************************)
\* some cell of the row holds the word
Says(row, word) == \E i \in 1..Len(row) : row[i].kind = "str" /\ Contains(upper(row[i].s), word)

\* the cells of the row that are not empty
NonEmpty(row) == {i \in 1..Len(row) : row[i].kind # "nan" /\ strip(CellStr(row[i])) # ""}

\* the cells of the row that parse as a date
DateCells(row) == {i \in 1..Len(row) : to_ddmmyyyy(variant, row[i]) \notin {"", "OverflowError"}}

Heading(row) == Says(row, "INGRESOS") \/ Says(row, "EGRESOS")
Saldo(row) == Says(row, "SALDO ANTERIOR")
Sentinel(row) == Says(row, "INFORME DE PROCESOS") \/ Says(row, "INFORME DE ERRORES")
TotalNoDate(row) == Says(row, "TOTAL") /\ DateCells(row) = {}

\* a row with exactly one non-empty cell that is not a date, and is none of
\* the rows above
ReasonRow(row) ==
    /\ Cardinality(NonEmpty(row)) = 1 /\ DateCells(row) = {}
    /\ ~Heading(row) /\ ~Saldo(row) /\ ~Sentinel(row) /\ ~TotalNoDate(row)

\* the text of a reason row
ReasonOf(row) == strip(CellStr(row[CHOOSE i \in NonEmpty(row) : TRUE]))

\* the least element of a set of positions, 0 when there is none
Least(S) == IF S = {} THEN 0 ELSE CHOOSE i \in S : \A j \in S : i <= j

\* the positions of the date, the branch label and the receipt id of a row:
\* the first cell that parses as a date, the first non-empty cell to its
\* right, the next cell after it with at least five digits (0: there is none)
DateAt(row) == Least(DateCells(row))
BranchAt(row) == IF DateAt(row) = 0 THEN 0 ELSE Least({i \in NonEmpty(row) : i > DateAt(row)})
ReceiptAt(row) == IF BranchAt(row) = 0 THEN 0
                  ELSE Least({i \in 1..Len(row) : i > BranchAt(row) /\ Len(clean_digits(row[i])) >= 5})

\* the numeric value of a cell, None when it has none
ValueOf(c) == IF c.kind = "nan" THEN None ELSE IF c.kind = "num" THEN Num(c.n, 0) ELSE parse_numeric(c.s)

\* the numeric values in the cells after the receipt id, in the order of the cells
Trailing(row) ==
    LET at == {i \in 1..Len(row) : ReceiptAt(row) # 0 /\ i > ReceiptAt(row) /\ ~ValueOf(row[i]).none}
        RECURSIVE From(_)
        From(i) == IF i > Len(row) THEN <<>> ELSE (IF i \in at THEN <<ValueOf(row[i])>> ELSE <<>>) \o From(i + 1)
    IN  From(1)

\* x <= y for two numbers
NumLeq(x, y) == x.m * (10 ^ (Max(x.e, y.e) - x.e)) <= y.m * (10 ^ (Max(x.e, y.e) - y.e))

\* the records the pass from this state to the next has emitted
Emitted == SubSeq(call'.st.regs, Len(call.st.regs) + 1, Len(call'.st.regs))

\* the row the pass from this state to the next has read
RowRead == call'.doc[Len(call'.doc)]

\* the three statement variants: cash (generic), bundle, bank
ThreeVariants == {"parse_ec_efect_xlsx_generic", "parse_ec_bultos_atm_xlsx", "parse_ec_efect_bco_xlsx"}

\* C21: once a row with exactly one non-empty, non-date cell is seen inside a
\* section, every record emitted afterwards carries its text as reason label,
\* until another such row replaces it or a heading, a SALDO ANTERIOR row or a
\* TOTAL row without a date clears it; the reason row and the date-less TOTAL
\* row emit no record themselves (all three statement variants)
C21_ReasonLabelSticks ==
    (call.fn = "scan" /\ call.parser \in ThreeVariants) =>
        \A k \in 1..Len(call.st.regs) :
            LET i == call.st.regs[k].ridx
                marks == {j \in 1..(i - 1) : \/ ReasonRow(call.doc[j]) \/ Heading(call.doc[j])
                                             \/ Saldo(call.doc[j]) \/ TotalNoDate(call.doc[j])}
                latest == CHOOSE j \in marks : \A h \in marks : h <= j
            IN  /\ ~ReasonRow(call.doc[i]) /\ ~TotalNoDate(call.doc[i])
                /\ (marks # {} /\ ReasonRow(call.doc[latest]))
                     => call.st.regs[k].MOTIVO_MOVIMIENTO = ReasonOf(call.doc[latest])

\* C22: a record is emitted only while the section is INGRESOS or EGRESOS: the
\* row of every record comes after a heading, with no SALDO ANTERIOR row
\* between that heading and the row
C22_RecordsOnlyInsideSection ==
    call.fn = "scan" =>
        \A k \in 1..Len(call.st.regs) :
            LET i == call.st.regs[k].ridx
            IN  \E h \in 1..(i - 1) :
                    /\ Heading(call.doc[h])
                    /\ \A j \in (h + 1)..(i - 1) : ~Saldo(call.doc[j])

\* C23: once a row with a report sentinel (INFORME DE PROCESOS, INFORME DE
\* ERRORES) was read, no later row of the sheet gives a record or changes the
\* section or the reason label
C23_SentinelStopsScan ==
    [][(call.fn = "scan" /\ \E j \in 1..Len(call.doc) : Sentinel(call.doc[j]))
          => /\ call'.st.regs = call.st.regs
             /\ call'.st.section = call.st.section
             /\ call'.st.motivo = call.st.motivo]_vars

\* C24: in every record the operation date is that of the first cell of the row
\* that parses as a date, the branch label is the content of the first
\* non-empty cell to the right of it, and the receipt id is the digits of the
\* next cell after the branch with at least five digits
C24_DateBranchReceipt ==
    call.fn = "scan" =>
        \A k \in 1..Len(call.st.regs) :
            LET r == call.st.regs[k]
                row == call.doc[r.ridx]
            IN  /\ DateAt(row) # 0 /\ r.FECHA_OPERACION = to_ddmmyyyy(variant, row[DateAt(row)])
                /\ BranchAt(row) # 0 /\ r.SUCURSAL = strip(CellStr(row[BranchAt(row)]))
                /\ ReceiptAt(row) # 0 /\ r.RECIBO = clean_digits(row[ReceiptAt(row)])

\* C25: inside a section, a row that has no date, or no branch label, or (bundle
\* variant) fewer than four trailing numbers, and is no heading, closing or
\* reason row, emits no record and leaves section and reason label as they were
C25_IncompleteRowSkipped ==
    [][(/\ call.fn = "scan" /\ call.parser \in ThreeVariants
        /\ call.st.section \in {"INGRESOS", "EGRESOS"}
        /\ ~Heading(RowRead) /\ ~Saldo(RowRead) /\ ~Sentinel(RowRead) /\ ~TotalNoDate(RowRead) /\ ~ReasonRow(RowRead)
        /\ \/ DateAt(RowRead) = 0
           \/ BranchAt(RowRead) = 0
           \/ call.parser = "parse_ec_bultos_atm_xlsx" /\ Len(Trailing(RowRead)) < 4)
          => /\ Emitted = <<>>
             /\ call'.st.section = call.st.section
             /\ call'.st.motivo = call.st.motivo]_vars

\* C26: from a bundle-statement row with the trailing numbers (Guarani bundle
\* count, Guarani amount, Dollar bundle count, Dollar amount) the extractor
\* emits a PYG record if only the Guarani pair is non-zero, a USD record if only
\* the Dollar pair is, a PYG record and then a USD record if both are, none if
\* all four are zero; each record carries the count and amount of its own pair
C26_BundlePairs ==
    [][(/\ call.fn = "scan" /\ call.parser \in {"parse_ec_bultos_atm_xlsx", "parse_ec_xlsx_generic"}
        /\ call.st.section \in {"INGRESOS", "EGRESOS"}
        /\ Len(Trailing(RowRead)) = 4)
          => LET t == Trailing(RowRead)
                 pyg == IF t[1].m # 0 \/ t[2].m # 0 THEN <<<<"PYG", t[1], t[2]>>>> ELSE <<>>
                 usd == IF t[3].m # 0 \/ t[4].m # 0 THEN <<<<"USD", t[3], t[4]>>>> ELSE <<>>
             IN  [k \in 1..Len(Emitted) |-> <<Emitted[k].MONEDA, Emitted[k].BULTOS, Emitted[k].MONTO>>] = pyg \o usd]_vars

\* C27: the amount of a record of the cash statement extractor is the maximum
\* of the numeric values in the cells after the receipt id
C27_AmountIsMaximum ==
    (call.fn = "scan" /\ call.parser \in {"parse_ec_efect_xlsx_generic", "parse_ec_xlsx_generic", "parse_ec_efect_bco_xlsx"}) =>
        \A k \in 1..Len(call.st.regs) :
            LET t == Trailing(call.doc[call.st.regs[k].ridx])
            IN  t # <<>> =>
                  /\ \E j \in 1..Len(t) : call.st.regs[k].MONTO = t[j]
                  /\ \A j \in 1..Len(t) : NumLeq(t[j], call.st.regs[k].MONTO)

\* the records read from row ridx of the inventory sheet
RecordsOfRow(ridx) == {k \in 1..Len(call.registros) : call.registros[k].ridx = ridx}

\* C28: the spreadsheet inventory extractor emits exactly one record for every
\* row whose column 0 resolves to PYG or USD and whose column 3 is numeric, and
\* none for any other row; a count or total (columns 4 to 8) that is empty or
\* not numeric is stored as 0
C28_InventoryRowRecord ==
    call.fn = "scan_inv" =>
      \A ridx \in 1..Len(call.doc) :
        LET row == call.doc[ridx]
        IN  /\ Cardinality(RecordsOfRow(ridx))
                 = (IF /\ normalize_divisa_to_iso(CellStr(row[1])) \in {"PYG", "USD"}
                       /\ ~ValueOf(row[4]).none
                    THEN 1 ELSE 0)
            /\ \A k \in RecordsOfRow(ridx) :
                 LET r == call.registros[k]
                     stored == <<r.CALIDAD_DEPOSITO, r.CJE_DEP, r.CALIDAD_CANJE, r.MONEDA, r.IMPORTE_TOTAL>>
                 IN  \A c \in 1..5 : ValueOf(row[4 + c]).none => stored[c] = Num(0, 0)

\* the line the pass from this state to the next has read, the numeric tokens
\* it yields and the records the pass has emitted
LineRead == call'.doc[Len(call'.doc)]
TokensRead == NumTokens(variant, IF variant = "b4" THEN ReplaceChars(LineRead, {"."}, "") ELSE upper(LineRead), 1)
LineEmitted == SubSeq(call'.st.datos, Len(call.st.datos) + 1, Len(call'.st.datos))

\* C29: the PDF inventory extractor emits a record for a line exactly when the
\* line yields exactly 6 numeric tokens and a grouping label, a value-type
\* label and an inventory date have all been found (a label found on the line
\* itself counts for a record that is emitted); a subtotal/total line emits
\* nothing and leaves grouping and value type unchanged
C29_InventoryLineRecord ==
    [][call.fn = "scan_pdf" =>
         IF Contains(upper(LineRead), "TOTAL")
         THEN /\ LineEmitted = <<>>
              /\ call'.st.agrupacion = call.st.agrupacion
              /\ call'.st.tipo_valor = call.st.tipo_valor
         ELSE /\ LineEmitted # <<>> =>
                   /\ Len(TokensRead) = 6
                   /\ call'.st.agrupacion # "" /\ call'.st.tipo_valor # ""
                   /\ call.ctx.fecha_inventario # ""
              /\ (/\ Len(TokensRead) = 6
                  /\ call.st.agrupacion # "" /\ call.st.tipo_valor # ""
                  /\ call.ctx.fecha_inventario # "") => Len(LineEmitted) = 1]_vars

\* C30: write_consolidated with an empty batch, or with a type outside the five
\* recognised ones, changes nothing: no output file is created, deleted or
\* modified and the type is not marked as written, so that the next non-empty
\* batch of that type is still the first write of the run: the file is
\* truncated and holds the header and the batch
C30_EmptyWriteChangesNothing ==
    [][(call.fn = "write_consolidated" /\ call'.n = call.n + 1) =>
         /\ (call'.tipo \notin OUTPUT_FILES \/ call'.df = <<>>) =>
               csv' = csv /\ RUN_WRITTEN' = RUN_WRITTEN
         /\ (/\ call.n > 0 /\ call.df = <<>> /\ call.tipo = call'.tipo
             /\ call'.tipo \in OUTPUT_FILES /\ call'.df # <<>> /\ call'.tipo \notin RUN_WRITTEN) =>
               /\ csv'[call'.tipo] = <<HeaderLine>> \o call'.df
               /\ call'.tipo \in RUN_WRITTEN']_vars

====
